---------------------------- MODULE Spec2Model ----------------------------
(***************************************************************************)
(* Model of the user-space management core of tagfs                        *)
(* (src/user/tagfs_lib.c): the on-device log and its writer, the bitmap    *)
(* allocator rebuilt from the log, and file allocation (make_file).        *)
(*                                                                         *)
(* Sizes and offsets are counted in MiB (2^20 bytes): one model unit of    *)
(* "bytes" is one MiB, so the 2 MiB allocation unit is 2.  Paths are       *)
(* sequences of one-character strings.                                     *)
(***************************************************************************)
EXTENDS Integers, Sequences, FiniteSets, TLC

VARIABLES sb, log, fs, ioctls, last, bmp, nappend, meta, procs

vars == <<sb, log, fs, ioctls, last, bmp, nappend, meta, procs>>

(***************************************************************************)
(* Layout constants (tagfs_meta.h, not part of src/; values in MiB).       *)
(***************************************************************************)
TAGFS_ALLOC_UNIT == 2
TAGFS_SUPERBLOCK_SIZE == 2
TAGFS_LOG_OFFSET == 2
TAGFS_LOG_LEN == 8
TAGFS_SUPER_MAGIC == 1
TAGFS_LOG_MAGIC == 2

(* errno values returned negated by the library *)
EINVAL == 22
E2BIG == 7
ENOMEM == 12
EBADF == 9

(***************************************************************************)
(* Bounds of the model.                                                    *)
(***************************************************************************)
MaxLastIndex == 3
MaxFileSize == 3
MaxBits == 5
MaxAllocSize == 6
MaxMkmeta == 2
MaxAppends == 2

(* devices formatted by mkfs: 12 MiB and 128 MiB *)
DevSizes == {12, 128}

(* the mount point and the names used under it *)
Mpt == <<"/", "m">>
RelNames == {<<"a">>, <<"b">>}
FullPath(rel) == Mpt \o <<"/">> \o rel

(* the file modes and the user and group ids callers pass; make_file is    *)
(* called with FileMode and ids 0 throughout                               *)
Modes == {1, 2}
Ids == {0, 1}
FileMode == 1

(***************************************************************************)
(* Log entries.  A slot that was never written is ZeroEntry.               *)
(***************************************************************************)
ZeroEntry ==
    [type |-> "ZERO", seqnum |-> 0, relpath |-> <<>>, size |-> 0,
     nextents |-> 0, ext_list |-> <<>>, ext_type |-> <<>>,
     fc_mode |-> 0, fc_uid |-> 0, fc_gid |-> 0]

EmptyLog(magic, lastidx) ==
    [magic |-> magic, next_seqnum |-> 0, next_index |-> 0,
     last_index |-> lastidx,
     entries |-> [i \in 0..lastidx |-> ZeroEntry]]

(* tagfs_log_full *)
tagfs_log_full(logp) == logp.next_index > logp.last_index

(* Mutant of the append guard: the bound of tagfs_log_full. *)
AppendLogIsFull_gt(logp) == logp.next_index > logp.last_index

(* the full test of tagfs_append_log *)
AppendLogIsFull(logp) == logp.next_index >= logp.last_index

(* Mutant of the append: the sequence number is not advanced. *)
AppendStore_noseq(logp, e) ==
    [logp EXCEPT !.entries[logp.next_index] =
                     [e EXCEPT !.seqnum = logp.next_seqnum],
                 !.next_index = logp.next_index + 1]

(* the stores of tagfs_append_log: stamp, copy, advance both counters *)
AppendStore(logp, e) ==
    [logp EXCEPT !.entries[logp.next_index] =
                     [e EXCEPT !.seqnum = logp.next_seqnum],
                 !.next_seqnum = logp.next_seqnum + 1,
                 !.next_index = logp.next_index + 1]

(* a null pointer passed for the log or for the entry *)
NULL == [type |-> "NULL"]

(* Mutant of the append: the sequence number is taken before the tests. *)
tagfs_append_log_early(logp, e) ==
    IF logp = NULL \/ e = NULL THEN [rc |-> -EINVAL, log |-> logp]
    ELSE IF logp.magic # TAGFS_LOG_MAGIC
    THEN [rc |-> -EINVAL, log |-> logp]
    ELSE IF AppendLogIsFull(logp)
    THEN [rc |-> -E2BIG,
          log |-> [logp EXCEPT !.next_seqnum = logp.next_seqnum + 1]]
    ELSE [rc |-> 0, log |-> AppendStore(logp, e)]

(* tagfs_append_log: the return code and the log afterwards *)
tagfs_append_log(logp, e) ==
    IF logp = NULL \/ e = NULL THEN [rc |-> -EINVAL, log |-> logp]
    ELSE IF logp.magic # TAGFS_LOG_MAGIC
    THEN [rc |-> -EINVAL, log |-> logp]
    ELSE IF AppendLogIsFull(logp)
    THEN [rc |-> -E2BIG, log |-> logp]
    ELSE [rc |-> 0, log |-> AppendStore(logp, e)]

(***************************************************************************)
(* Bitmap primitives (bitmap.h, not part of src/).  A bitmap is the set of *)
(* the indices of its set bits.                                            *)
(***************************************************************************)
(* bytes needed for num_blocks bits *)
mu_bitmap_size(num_blocks) == (num_blocks + 7) \div 8

mu_bitmap_test(bitmap, i) == i \in bitmap

mu_bitmap_set(bitmap, i) == bitmap \cup {i}

(* 1 when the bit was clear and is now set, 0 when it was already set *)
mu_bitmap_test_and_set(bitmap, i) ==
    IF i \in bitmap THEN [rc |-> 0, bitmap |-> bitmap]
    ELSE [rc |-> 1, bitmap |-> bitmap \cup {i}]

(* Mutant: the log region is left out of the reserved units. *)
put_sb_only_into_bitmap(bitmap) == mu_bitmap_set(bitmap, 0)

(* put_sb_log_into_bitmap: units 0 .. (LOG_OFFSET + LOG_LEN)/ALLOC_UNIT - 1 *)
put_sb_log_into_bitmap(bitmap) ==
    mu_bitmap_set(bitmap, 0)
        \cup (1 .. ((TAGFS_LOG_OFFSET + TAGFS_LOG_LEN) \div TAGFS_ALLOC_UNIT) - 1)

(* Mutant: collisions are flagged, not counted. *)
RECURSIVE MarkPages_flag(_, _, _)
MarkPages_flag(acc, k, end) ==
    IF k >= end THEN acc
    ELSE LET ts == mu_bitmap_test_and_set(acc.bitmap, k)
         IN  MarkPages_flag(
                 IF ts.rc = 0
                 THEN [acc EXCEPT !.errors = 1]
                 ELSE [acc EXCEPT !.bitmap = ts.bitmap,
                                  !.alloc_sum = @ + TAGFS_ALLOC_UNIT],
                 k + 1, end)

(* Mutant: a double allocation is added to alloc_sum as well. *)
RECURSIVE MarkPages_all(_, _, _)
MarkPages_all(acc, k, end) ==
    IF k >= end THEN acc
    ELSE LET ts == mu_bitmap_test_and_set(acc.bitmap, k)
         IN  MarkPages_all(
                 IF ts.rc = 0
                 THEN [acc EXCEPT !.errors = @ + 1,
                                  !.alloc_sum = @ + TAGFS_ALLOC_UNIT]
                 ELSE [acc EXCEPT !.bitmap = ts.bitmap,
                                  !.alloc_sum = @ + TAGFS_ALLOC_UNIT],
                 k + 1, end)

(* the loop over the pages k of one extent (tagfs_build_bitmap) *)
RECURSIVE MarkPages(_, _, _)
MarkPages(acc, k, end) ==
    IF k >= end THEN acc
    ELSE LET ts == mu_bitmap_test_and_set(acc.bitmap, k)
         IN  MarkPages(
                 IF ts.rc = 0
                 THEN [acc EXCEPT !.errors = @ + 1]
                 ELSE [acc EXCEPT !.bitmap = ts.bitmap,
                                  !.alloc_sum = @ + TAGFS_ALLOC_UNIT],
                 k + 1, end)

(* Mutant: an extent's length is rounded down to whole units. *)
RECURSIVE MarkExtents_floor(_, _, _)
MarkExtents_floor(acc, fc, j) ==
    IF j >= fc.nextents THEN acc
    ELSE LET ext == fc.ext_list[j + 1]
             page_num == ext.offset \div TAGFS_ALLOC_UNIT
             np == ext.len \div TAGFS_ALLOC_UNIT
         IN  MarkExtents_floor(MarkPages(acc, page_num, page_num + np),
                               fc, j + 1)

(* the loop over the extents j of one FILE entry *)
RECURSIVE MarkExtents(_, _, _)
MarkExtents(acc, fc, j) ==
    IF j >= fc.nextents THEN acc
    ELSE LET ext == fc.ext_list[j + 1]
             page_num == ext.offset \div TAGFS_ALLOC_UNIT
             np == (ext.len + TAGFS_ALLOC_UNIT - 1) \div TAGFS_ALLOC_UNIT
         IN  MarkExtents(MarkPages(acc, page_num, page_num + np),
                         fc, j + 1)

(* the loop over the log entries i *)
RECURSIVE ScanEntries(_, _, _)
ScanEntries(acc, logp, i) ==
    IF i >= logp.next_index THEN acc
    ELSE LET le == logp.entries[i]
         IN  ScanEntries(
                 IF le.type = "FILE"
                 THEN MarkExtents([acc EXCEPT !.size_sum = @ + le.size], le, 0)
                 ELSE acc,
                 logp, i + 1)

(* tagfs_build_bitmap: the bitmap and its four outputs *)
tagfs_build_bitmap(logp, bitmap_size_in) ==
    LET npages == (bitmap_size_in - TAGFS_SUPERBLOCK_SIZE - TAGFS_LOG_LEN)
                      \div TAGFS_ALLOC_UNIT
        start == [bitmap |-> put_sb_log_into_bitmap({}),
                  bitmap_size |-> mu_bitmap_size(npages),
                  errors |-> 0, size_sum |-> 0, alloc_sum |-> 0]
    IN  ScanEntries(start, logp, 0)

(***************************************************************************)
(* Contiguous allocation.                                                  *)
(***************************************************************************)
(* Mutant: the obstruction test is left out, the first clear bit wins. *)
RangeIsBusy_never(bitmap, i, alloc_bits) == FALSE

(* the inner test loop: some bit of i .. i+alloc_bits-1 is set *)
RangeIsBusy(bitmap, i, alloc_bits) ==
    \E j \in i .. (i + alloc_bits - 1) : mu_bitmap_test(bitmap, j)

(* the scan of bitmap_alloc_contiguous from bit i on *)
RECURSIVE AllocScan(_, _, _, _)
AllocScan(bitmap, nbits, alloc_bits, i) ==
    IF i >= nbits THEN [offset |-> 0, bitmap |-> bitmap]
    ELSE IF mu_bitmap_test(bitmap, i)
    THEN AllocScan(bitmap, nbits, alloc_bits, i + 1)
    ELSE IF alloc_bits > nbits - i THEN [offset |-> 0, bitmap |-> bitmap]
    ELSE IF RangeIsBusy(bitmap, i, alloc_bits)
    THEN AllocScan(bitmap, nbits, alloc_bits, i + 1)
    ELSE [offset |-> i * TAGFS_ALLOC_UNIT,
          bitmap |-> bitmap \cup (i .. (i + alloc_bits - 1))]

(* bitmap_alloc_contiguous: the returned offset and the bitmap afterwards *)
bitmap_alloc_contiguous(bitmap, nbits, size) ==
    AllocScan(bitmap, nbits,
              (size + TAGFS_ALLOC_UNIT - 1) \div TAGFS_ALLOC_UNIT, 0)

(* tagfs_check_super *)
tagfs_check_super(sbp) == IF sbp.magic # TAGFS_SUPER_MAGIC THEN -1 ELSE 0

(* tagfs_validate_superblock_by_path: the primary device size, or -1 *)
tagfs_validate_superblock_by_path(sbp) ==
    IF tagfs_check_super(sbp) # 0 THEN -1 ELSE sbp.devsize

(* the allocation of tagfs_alloc_bypath on the bitmap just built *)
AllocOnBitmap(bb, size) ==
    bitmap_alloc_contiguous(bb.bitmap, bb.bitmap_size, size).offset

(* tagfs_alloc_bypath: the bitmap is rebuilt from the log on every call *)
tagfs_alloc_bypath(logp, sbp, size) ==
    IF size <= 0 THEN -1
    ELSE LET daxdevsize == tagfs_validate_superblock_by_path(sbp)
         IN  IF daxdevsize < 0 THEN daxdevsize
             ELSE CHOOSE offset \in
                      {AllocOnBitmap(bb, size) :
                           bb \in {tagfs_build_bitmap(logp, daxdevsize)}} : TRUE

(* round_size_to_alloc_unit (tagfs_lib.h, not part of src/) *)
round_size_to_alloc_unit(size) ==
    ((size + TAGFS_ALLOC_UNIT - 1) \div TAGFS_ALLOC_UNIT) * TAGFS_ALLOC_UNIT

(* tagfs_relpath_from_fullpath: <<>> stands for the NULL return *)
tagfs_relpath_from_fullpath(mpt, fullpath) ==
    IF SubSeq(fullpath, 1, Len(mpt)) # mpt THEN <<>>
    ELSE SubSeq(fullpath, Len(mpt) + 2, Len(fullpath))

(* Mutant: the entry records the allocated length as the file size. *)
tagfs_log_file_creation_alloc(logp, nextents, ext_list, relpath, mode, uid, gid, size) ==
    IF tagfs_log_full(logp) THEN [rc |-> -ENOMEM, log |-> logp]
    ELSE tagfs_append_log(logp,
             [type |-> "FILE", seqnum |-> 0, relpath |-> relpath,
              size |-> ext_list[1].len, nextents |-> nextents,
              ext_list |-> [i \in 1..nextents |-> ext_list[i]],
              ext_type |-> [i \in 1..nextents |-> "SIMPLE"],
              fc_mode |-> mode, fc_uid |-> uid, fc_gid |-> gid])

(* tagfs_log_file_creation: the FILE entry it builds, every extent tagged  *)
(* TAGFS_EXT_SIMPLE, then the append                                       *)
tagfs_log_file_creation(logp, nextents, ext_list, relpath, mode, uid, gid, size) ==
    IF tagfs_log_full(logp) THEN [rc |-> -ENOMEM, log |-> logp]
    ELSE tagfs_append_log(logp,
             [type |-> "FILE", seqnum |-> 0, relpath |-> relpath,
              size |-> size, nextents |-> nextents,
              ext_list |-> [i \in 1..nextents |-> ext_list[i]],
              ext_type |-> [i \in 1..nextents |-> "SIMPLE"],
              fc_mode |-> mode, fc_uid |-> uid, fc_gid |-> gid])

(* tagfs_log_dir_creation *)
tagfs_log_dir_creation(logp, relpath, mode, uid, gid) ==
    IF tagfs_log_full(logp) THEN [rc |-> -ENOMEM, log |-> logp]
    ELSE tagfs_append_log(logp,
             [type |-> "MKDIR", seqnum |-> 0, relpath |-> relpath,
              size |-> 0, nextents |-> 0, ext_list |-> <<>>,
              ext_type |-> <<>>,
              fc_mode |-> mode, fc_uid |-> uid, fc_gid |-> gid])

(* tagfs_file_map_create: the MAP_CREATE ioctl it issues, with the answer  *)
(* kernel_rc of the kernel, which is also its return                       *)
tagfs_file_map_create(path, size, nextents, ext_list, type, kernel_rc) ==
    [path |-> path, file_type |-> type, file_size |-> size,
     ext_list_count |-> nextents, ext_list |-> ext_list, rc |-> kernel_rc]

(* Mutant: the allocator's failure value 0 is tested as well. *)
AllocFailed_le(offset) == offset <= 0

(* the failure test of tagfs_file_alloc on the allocator's return *)
AllocFailed(offset) == offset < 0

(***************************************************************************)
(* tagfs_file_alloc on an open file: the return code, the log afterwards,  *)
(* the allocator's return and the MAP_CREATE call, if one was issued.      *)
(* kernel_rc is the kernel's answer to MAP_CREATE.                         *)
(***************************************************************************)
FileAllocAt(logp, path, relpath, mode, uid, gid, size, kernel_rc, offset) ==
    LET ext == [offset |-> offset, len |-> round_size_to_alloc_unit(size)]
        lr == tagfs_log_file_creation(logp, 1, <<ext>>, relpath,
                                      mode, uid, gid, size)
        none == [rc |-> 0, log |-> logp, offset |-> offset, call |-> <<>>,
                 appended |-> 0]
    IN  IF AllocFailed(offset) THEN [none EXCEPT !.rc = -ENOMEM]
        ELSE IF lr.rc # 0 THEN [none EXCEPT !.rc = lr.rc]
        ELSE [rc |-> kernel_rc, log |-> lr.log, offset |-> offset,
              appended |-> 1,
              call |-> <<tagfs_file_map_create(path, size, 1, <<ext>>,
                                               "REG", kernel_rc)>>]

tagfs_file_alloc(logp, sbp, path, mode, uid, gid, size, kernel_rc) ==
    LET relpath == tagfs_relpath_from_fullpath(Mpt, path)
    IN  IF relpath = <<>>
        THEN [rc |-> -EINVAL, log |-> logp, offset |-> -1, call |-> <<>>,
              appended |-> 0]
        ELSE CHOOSE r \in
                 {FileAllocAt(logp, path, relpath, mode, uid, gid, size,
                              kernel_rc, offset) :
                      offset \in {tagfs_alloc_bypath(logp, sbp, size)}} : TRUE

(***************************************************************************)
(* tagfs_file_create: stat, open(O_CREAT), the NOP ioctl (nop_rc is the    *)
(* kernel's answer).  fd 3 stands for the open descriptor; fds is the set  *)
(* of descriptors the call leaves open.                                    *)
(***************************************************************************)
(* unlink *)
unlink(files, path) ==
    IF files[path] = "reg" THEN [files EXCEPT ![path] = "none"] ELSE files

(* open(path, O_RDWR | O_CREAT) on a path that does not exist *)
open_creat(files, path) == [files EXCEPT ![path] = "reg"]

(* Mutant: the file that is not in a tagfs mount is left in place. *)
NotTagfsCleanup_keep(files, path) == files

(* the cleanup of tagfs_file_create when the NOP ioctl fails *)
NotTagfsCleanup(files, path) == unlink(files, path)

tagfs_file_create(files, path, nop_rc) ==
    IF files[path] # "none" THEN [fd |-> -1, fs |-> files, fds |-> {}]
    ELSE IF nop_rc # 0
    THEN [fd |-> -EBADF, fds |-> {},
          fs |-> NotTagfsCleanup(open_creat(files, path), path)]
    ELSE [fd |-> 3, fs |-> open_creat(files, path), fds |-> {3}]

(* the state of <mpt>/.meta: the kind of the directory and, for the two    *)
(* meta-files, the kind, the size stat reports and a number gen that       *)
(* tells one file at the path from the next (it grows with every create);  *)
(* runs counts the calls of mkmeta.  MetaInPlace is a mount whose          *)
(* meta-files were made by mkmeta.                                         *)
MetaFile(kind, size, gen) == [kind |-> kind, size |-> size, gen |-> gen]

MetaInPlace ==
    [dir |-> "dir",
     sbfile |-> MetaFile("reg", TAGFS_SUPERBLOCK_SIZE, 0),
     logfile |-> MetaFile("reg", TAGFS_LOG_LEN, 0),
     runs |-> 0]

(* no process is inside the library *)
NoProcs == [use_mutex |-> FALSE]

NoBitmap == [bitmap |-> {}, nbits |-> 0]

(* the record of the last operation (history, for stating properties) *)
(* op: the operation; rc: its return; idx: next_index before it; offset:  *)
(* what the allocator returned (-1: not called); farc: the return of      *)
(* tagfs_file_alloc; call: the MAP_CREATE issued; prelog, prebmp: the log *)
(* and the bitmap before the operation                                    *)
Last(op, rc, idx, offset, size, farc, call, prelog, prebmp) ==
    [op |-> op, rc |-> rc, idx |-> idx, offset |-> offset, size |-> size,
     farc |-> farc, call |-> call, prelog |-> prelog, prebmp |-> prebmp]

(***************************************************************************)
(* Initial states: a formatted device with a valid superblock and an empty *)
(* log, mounted at Mpt with its meta-files in place, no file created yet.  *)
(***************************************************************************)
InitDevice(sizes) ==
    /\ \E d \in sizes :
          sb = [magic |-> TAGFS_SUPER_MAGIC, devsize |-> d,
                log_offset |-> TAGFS_LOG_OFFSET, log_len |-> TAGFS_LOG_LEN]
    /\ fs = [p \in {FullPath(r) : r \in RelNames} |-> "none"]
    /\ ioctls = <<>>

InitMount ==
    /\ meta = MetaInPlace
    /\ procs = NoProcs
    /\ InitDevice(DevSizes)
    /\ log = EmptyLog(TAGFS_LOG_MAGIC, MaxLastIndex)
    /\ bmp = NoBitmap
    /\ last = Last("init", 0, 0, -1, 0, 0, <<>>, log, {})
    /\ nappend = 0

Init == InitMount

(***************************************************************************)
(* tagfs_mkfile: create the file, allocate and log it, unlink on failure.  *)
(***************************************************************************)
MkFile(rel, size, kernel_rc) ==
    LET path == FullPath(rel)
    IN  \E fc \in {tagfs_file_create(fs, path, 0)} :
        \E fa \in {IF fc.fd < 0
                   THEN [rc |-> 0, log |-> log, offset |-> -1,
                         call |-> <<>>, appended |-> 0]
                   ELSE tagfs_file_alloc(log, sb, path, FileMode, 0, 0,
                                         size, kernel_rc)} :
            /\ log' = fa.log
            /\ ioctls' = ioctls \o fa.call
            /\ fs' = IF fc.fd < 0 THEN fs
                     ELSE IF fa.rc # 0 THEN unlink(fc.fs, path) ELSE fc.fs
            /\ nappend' = nappend + fa.appended
            /\ last' = Last("mkfile",
                            IF fc.fd < 0 THEN fc.fd
                            ELSE IF fa.rc # 0 THEN -1 ELSE fc.fd,
                            log.next_index, fa.offset, size, fa.rc, fa.call,
                            log, {})
            /\ UNCHANGED <<sb, bmp, meta, procs>>

MkFileAny ==
    \E rel \in RelNames, size \in 0..MaxFileSize, kernel_rc \in {0, -1} :
        MkFile(rel, size, kernel_rc)

Next == MkFileAny

Spec == Init /\ [][Next]_vars

(***************************************************************************)
(* The log writer driven directly, with entries a caller may hand it:      *)
(* FILE entries with aligned extents of its choice, and MKDIR entries.     *)
(***************************************************************************)
CraftedExtLists ==
    {<<[offset |-> 8, len |-> 2]>>, <<[offset |-> 10, len |-> 2]>>,
     <<[offset |-> 10, len |-> 3]>>}
        \cup {<<[offset |-> 14, len |-> 2], [offset |-> 10, len |-> 2]>>,
              <<[offset |-> 10, len |-> 2], [offset |-> 10, len |-> 4]>>}

CraftedEntries ==
    {[type |-> "FILE", seqnum |-> 0, relpath |-> <<"c">>, size |-> 3,
      nextents |-> Len(x), ext_list |-> x,
      ext_type |-> [i \in 1..Len(x) |-> "SIMPLE"],
      fc_mode |-> FileMode, fc_uid |-> 0, fc_gid |-> 0] :
         x \in CraftedExtLists}
        \cup {[type |-> t, seqnum |-> 0, relpath |-> <<"d">>, size |-> 0,
               nextents |-> 0, ext_list |-> <<>>, ext_type |-> <<>>,
               fc_mode |-> FileMode, fc_uid |-> 0, fc_gid |-> 0] :
                  t \in {"MKDIR"}}

AppendLog(e) ==
    LET r == tagfs_append_log(log, e)
    IN  /\ log' = r.log
        /\ nappend' = nappend + (IF r.rc = 0 THEN 1 ELSE 0)
        /\ last' = Last("append", r.rc, log.next_index, -1, 0, 0, <<>>,
                        log, {})
        /\ UNCHANGED <<sb, fs, ioctls, bmp, meta, procs>>

AppendLogAny == \E e \in CraftedEntries : AppendLog(e)

(* the log region may also hold something that is not a log (bad magic) *)
InitLog ==
    /\ meta = MetaInPlace
    /\ procs = NoProcs
    /\ InitDevice({128})
    /\ \E m \in {TAGFS_LOG_MAGIC, 0} : log = EmptyLog(m, MaxLastIndex)
    /\ bmp = NoBitmap
    /\ last = Last("init", 0, 0, -1, 0, 0, <<>>, log, {})
    /\ nappend = 0

(* make_file run on such a log *)
MkFileOnLog ==
    \E size \in 1..MaxFileSize, kernel_rc \in {0, -1} :
        MkFile(<<"a">>, size, kernel_rc)

NextLog == AppendLogAny \/ MkFileOnLog

SpecLog == InitLog /\ [][NextLog]_vars

(***************************************************************************)
(* The contiguous allocator on any bitmap.                                 *)
(***************************************************************************)
InitAlloc ==
    /\ meta = MetaInPlace
    /\ procs = NoProcs
    /\ InitDevice({128})
    /\ log = EmptyLog(TAGFS_LOG_MAGIC, 1)
    /\ \E n \in 1..MaxBits : \E b \in SUBSET (0..(n - 1)) :
          bmp = [bitmap |-> b, nbits |-> n]
    /\ last = Last("init", 0, 0, -1, 0, 0, <<>>, log, {})
    /\ nappend = 0

AllocContiguous(size) ==
    LET r == bitmap_alloc_contiguous(bmp.bitmap, bmp.nbits, size)
    IN  /\ bmp' = [bmp EXCEPT !.bitmap = r.bitmap]
        /\ last' = Last("alloc", 0, 0, r.offset, size, 0, <<>>, log,
                        bmp.bitmap)
        /\ UNCHANGED <<sb, log, fs, ioctls, nappend, meta, procs>>

NextAlloc == \E size \in 1..MaxAllocSize : AllocContiguous(size)

SpecAlloc == InitAlloc /\ [][NextAlloc]_vars

(***************************************************************************)
(* Properties.                                                             *)
(***************************************************************************)
LogValid == log.magic = TAGFS_LOG_MAGIC

(* C1: starting from an empty log with valid magic, after any sequence of  *)
(* appends of which N succeeded, next_index = N, next_seqnum = N and the   *)
(* entry at every index i < N carries seqnum i.                            *)
C1_AppendCounts ==
    LogValid =>
        /\ log.next_index = nappend
        /\ log.next_seqnum = nappend
        /\ \A i \in 0..(nappend - 1) :
              log.entries[i].type # "ZERO" /\ log.entries[i].seqnum = i

C1_Witness ==
    LogValid /\ nappend = 2 /\ last.op = "append" /\ last.rc = 0

(* C2: an append succeeds whenever next_index <= last_index and fails with *)
(* log-full only when next_index > last_index; a log with last_index = 3   *)
(* takes 4 appends and then has next_seqnum = 4.                           *)
C2_AppendUntilPastLast ==
    (LogValid /\ last.op = "append") =>
        /\ last.idx <= log.last_index => last.rc = 0
        /\ last.rc = -E2BIG =>
              last.idx > log.last_index
                  /\ log.next_seqnum = log.last_index + 1

(* C3: an append at next_index = last_index fails with log-full and        *)
(* changes nothing; an append at next_index = last_index - 1 succeeds and  *)
(* leaves exactly one unused slot, the one at index last_index.            *)
C3_AppendAtLast ==
    (LogValid /\ last.op = "append") =>
        /\ last.idx = log.last_index =>
              last.rc = -E2BIG /\ log = last.prelog
        /\ last.idx = log.last_index - 1 =>
              /\ last.rc = 0
              /\ {i \in 0..log.last_index : i >= log.next_index}
                     = {log.last_index}
              /\ {i \in 0..log.last_index : log.entries[i] = ZeroEntry}
                     = {log.last_index}

C3_Witness ==
    /\ LogValid /\ last.op = "append"
    /\ last.idx = log.last_index /\ last.rc = -E2BIG
    /\ log.entries[log.last_index - 1].type # "ZERO"

(* the primary device's size as the allocator reads it from the superblock *)
DevSize == sb.devsize

(* the first unit after the superblock and the log *)
FirstDataUnit == (sb.log_offset + sb.log_len) \div TAGFS_ALLOC_UNIT

(* the allocation units an extent covers *)
UnitsOf(ext) ==
    (ext.offset \div TAGFS_ALLOC_UNIT)
        ..((ext.offset + ext.len - 1) \div TAGFS_ALLOC_UNIT)

(* the FILE entries of a log, by index *)
FileIdx(logp) ==
    {i \in 0..(logp.next_index - 1) : logp.entries[i].type = "FILE"}

(* the units the FILE entry at index i references *)
EntryUnits(logp, i) ==
    UNION {UnitsOf(logp.entries[i].ext_list[j]) :
               j \in 1..logp.entries[i].nextents}

(* the units of the device after the log that no FILE entry covers *)
FreeUnits(logp) ==
    {k \in FirstDataUnit..((DevSize \div TAGFS_ALLOC_UNIT) - 1) :
        \A i \in FileIdx(logp) : k \notin EntryUnits(logp, i)}

(* C4: when the allocator finds no fit and returns 0, allocate_file fails  *)
(* with ENOMEM, appends no entry and issues no map-create ioctl.           *)
C4_NoFitIsENOMEM ==
    (last.op = "mkfile" /\ last.offset = 0) =>
        /\ last.farc = -ENOMEM
        /\ log = last.prelog
        /\ last.call = <<>>

(* C5: after any sequence of make_file operations every extent of every   *)
(* FILE entry is aligned, lies at or after log_offset + log_len and has a  *)
(* positive length.                                                        *)
C5_ExtentsWellFormed ==
    \A i \in FileIdx(log) :
        \A j \in 1..log.entries[i].nextents :
            LET x == log.entries[i].ext_list[j]
            IN  /\ x.offset % TAGFS_ALLOC_UNIT = 0
                /\ x.offset >= sb.log_offset + sb.log_len
                /\ x.len > 0

(* C6: after any sequence of make_file operations by a single writer the   *)
(* extents of any two distinct FILE entries are disjoint.                  *)
C6_ExtentsDisjoint ==
    \A i \in FileIdx(log) : \A j \in FileIdx(log) :
        i # j => EntryUnits(log, i) \cap EntryUnits(log, j) = {}

(* C8: an allocation of exactly the remaining free contiguous space of the *)
(* device succeeds, and one allocation unit more fails with 0.             *)
C8_ExactFitSucceeds ==
    LET free == FreeUnits(last.prelog)
        bytes == Cardinality(free) * TAGFS_ALLOC_UNIT
    IN  (last.op = "mkfile" /\ last.offset >= 0 /\ free # {}) =>
            /\ last.size = bytes => last.offset > 0
            /\ last.size = bytes + TAGFS_ALLOC_UNIT => last.offset = 0

(* the number of allocation units a request of size bytes needs *)
UnitsNeeded(size) == (size + TAGFS_ALLOC_UNIT - 1) \div TAGFS_ALLOC_UNIT

(* the start bits at which n consecutive clear bits lie inside the bitmap *)
FitStarts(bitmap, nbits, n) ==
    {s \in 0..(nbits - n) : \A j \in s..(s + n - 1) : j \notin bitmap}

(* C7: contiguous allocation is first-fit: it returns start_bit times the  *)
(* allocation unit for the lowest start_bit at which ceil(size/unit) clear *)
(* bits lie inside the bitmap and sets exactly those bits; with no such    *)
(* start_bit it returns 0 and leaves the bitmap unchanged.                 *)
C7_FirstFit ==
    last.op = "alloc" =>
        LET n == UnitsNeeded(last.size)
            fits == FitStarts(last.prebmp, bmp.nbits, n)
        IN  IF fits = {}
            THEN last.offset = 0 /\ bmp.bitmap = last.prebmp
            ELSE \E s \in fits :
                    /\ \A t \in fits : s <= t
                    /\ last.offset = s * TAGFS_ALLOC_UNIT
                    /\ bmp.bitmap = last.prebmp \cup (s..(s + n - 1))

(* a clear bit was passed over because the range after it was obstructed *)
C7_Witness ==
    /\ last.op = "alloc" /\ last.offset > 0
    /\ \E k \in 0..((last.offset \div TAGFS_ALLOC_UNIT) - 1) :
          k \notin last.prebmp
    /\ bmp.bitmap # last.prebmp

(* C9: round trip: on a collision-free log, after a successful allocation  *)
(* and the append of the FILE entry with the returned extent, the rebuilt  *)
(* bitmap has every unit of the new range set, none of them was set        *)
(* before, and the collision count is still zero.                          *)
C9_RoundTrip ==
    LET before == tagfs_build_bitmap(last.prelog, DevSize)
        after == tagfs_build_bitmap(log, DevSize)
        first == last.offset \div TAGFS_ALLOC_UNIT
        range == first..(first + UnitsNeeded(last.size) - 1)
    IN  (/\ last.op = "mkfile" /\ last.offset > 0
         /\ log.next_index = last.prelog.next_index + 1
         /\ before.errors = 0)
        => /\ log.entries[last.idx].ext_list
                  = <<[offset |-> last.offset,
                       len |-> UnitsNeeded(last.size) * TAGFS_ALLOC_UNIT]>>
           /\ range \subseteq after.bitmap
           /\ range \cap before.bitmap = {}
           /\ after.bitmap = before.bitmap \cup range
           /\ after.errors = 0

(* the round trip on a log that holds a FILE entry written by another hand *)
C9_Witness ==
    /\ last.op = "mkfile" /\ last.offset > 0
    /\ log.next_index = last.prelog.next_index + 1
    /\ tagfs_build_bitmap(last.prelog, DevSize).errors = 0
    /\ \E i \in FileIdx(last.prelog) :
          last.prelog.entries[i].relpath = <<"c">>

(* the units set aside for the superblock and the log *)
ReservedUnits ==
    0..(((TAGFS_LOG_OFFSET + TAGFS_LOG_LEN) \div TAGFS_ALLOC_UNIT) - 1)

(* the references (entry i, extent j, unit k) of a log *)
UnitRefs(logp) ==
    UNION {UNION {{<<i, j, k>> : k \in UnitsOf(logp.entries[i].ext_list[j])} :
                      j \in 1..logp.entries[i].nextents} :
               i \in FileIdx(logp)}

(* a reference that hits a unit set by the reserved range or earlier *)
HitsSetBit(refs, r) ==
    \/ r[3] \in ReservedUnits
    \/ \E q \in refs :
          /\ q[3] = r[3]
          /\ (q[1] < r[1] \/ (q[1] = r[1] /\ q[2] < r[2]))

(* C10: the collision count of the bitmap builder is the number of         *)
(* (entry, extent, unit) references that hit a bit already set, counted    *)
(* per unit; two FILE entries sharing one single-unit extent give 1.       *)
C10_CollisionsPerUnit ==
    \A refs \in {UnitRefs(log)} :
        tagfs_build_bitmap(log, DevSize).errors
            = Cardinality({r \in refs : HitsSetBit(refs, r)})

(* two FILE entries sharing one single-unit extent *)
C10_Witness ==
    /\ log.next_index = 2
    /\ log.entries[0].ext_list = <<[offset |-> 10, len |-> 2]>>
    /\ log.entries[1].ext_list = <<[offset |-> 10, len |-> 2]>>
    /\ tagfs_build_bitmap(log, DevSize).errors = 1

(* the sum over the extents j+1 .. nextents of a FILE entry of the extent  *)
(* length rounded up to the allocation unit                                *)
RECURSIVE SumRoundedLens(_, _)
SumRoundedLens(fc, j) ==
    IF j >= fc.nextents THEN 0
    ELSE round_size_to_alloc_unit(fc.ext_list[j + 1].len)
             + SumRoundedLens(fc, j + 1)

(* the sums over the FILE entries i .. next_index-1 of a log *)
RECURSIVE SumAlloc(_, _)
SumAlloc(logp, i) ==
    IF i >= logp.next_index THEN 0
    ELSE (IF logp.entries[i].type = "FILE"
          THEN SumRoundedLens(logp.entries[i], 0) ELSE 0)
             + SumAlloc(logp, i + 1)

RECURSIVE SumSizes(_, _)
SumSizes(logp, i) ==
    IF i >= logp.next_index THEN 0
    ELSE (IF logp.entries[i].type = "FILE" THEN logp.entries[i].size ELSE 0)
             + SumSizes(logp, i + 1)

(* C11: on a log with zero collisions, alloc_total is the sum over all     *)
(* FILE entries and extents of the extent length rounded up to the         *)
(* allocation unit, and size_total is the sum of the FILE entries' sizes.  *)
C11_TotalsOnCleanLog ==
    \A bb \in {tagfs_build_bitmap(log, DevSize)} :
        bb.errors = 0
            => /\ bb.alloc_sum = SumAlloc(log, 0)
               /\ bb.size_sum = SumSizes(log, 0)

(* a collision-free log with two FILE entries, one of them with an extent  *)
(* whose length is not a multiple of the allocation unit                   *)
C11_Witness ==
    /\ tagfs_build_bitmap(log, DevSize).errors = 0
    /\ Cardinality(FileIdx(log)) >= 2
    /\ \E i \in FileIdx(log) :
          log.entries[i].ext_list[1].len % TAGFS_ALLOC_UNIT # 0

(***************************************************************************)
(* Log replay (tagfs_logplay).                                             *)
(***************************************************************************)
(* realpath on a path whose directories exist: duplicate '/' characters    *)
(* are removed.  When the last component does not exist the C library      *)
(* leaves the path up to and including that component in the buffer.       *)
RECURSIVE realpath(_)
realpath(p) ==
    IF Len(p) < 2 THEN p
    ELSE IF p[1] = "/" /\ p[2] = "/" THEN realpath(Tail(p))
    ELSE <<p[1]>> \o realpath(Tail(p))

(* tagfs_log_entry_fc_path_is_relative, tagfs_log_entry_md_path_is_relative *)
(* (tagfs_meta.h, not part of src/)                                         *)
path_is_relative(relpath) == Len(relpath) = 0 \/ relpath[1] # "/"

(* the answer of the NOP ioctl: it fails on a file outside the tagfs mount *)
file_not_tagfs(path) ==
    Len(path) <= Len(Mpt) \/ SubSeq(path, 1, Len(Mpt) + 1) # Mpt \o <<"/">>

(* the slot k (from 0) of the extent array of a FILE entry; the writer     *)
(* zeroes the entry before filling slots 0 .. nextents-1                   *)
LogExtent(fc, k) ==
    IF k < Len(fc.ext_list) THEN fc.ext_list[k + 1]
    ELSE [offset |-> 0, len |-> 0]

(* Mutant: extents with offset 0 are not looked for. *)
ZeroOffsetExtents_none(fc) == {}

(* the extents j < nextents of a FILE entry that have offset 0 *)
ZeroOffsetExtents(fc) ==
    {j \in 0..(fc.nextents - 1) : LogExtent(fc, j).offset = 0}

(* the extent list replay builds for the ioctl: tle points at slot j and   *)
(* is indexed by j again                                                   *)
ReplayExtents(fc) ==
    [j \in 1..fc.nextents |-> LogExtent(fc, (j - 1) + (j - 1))]

(* Mutant: a target that exists is not skipped. *)
TargetExists_never(files, rpath) == FALSE

(* stat(rpath) succeeds *)
TargetExists(files, rpath) == files[rpath] # "none"

(* the parent directory of a path *)
RECURSIVE dirname(_)
dirname(p) ==
    IF Len(p) <= 1 THEN <<"/">>
    ELSE IF p[Len(p)] = "/" THEN SubSeq(p, 1, Len(p) - 1)
    ELSE dirname(SubSeq(p, 1, Len(p) - 1))

(* a path names a directory: the mount point or a directory under it *)
IsDir(files, p) == p = Mpt \/ (p \in DOMAIN files /\ files[p] = "dir")

(* mkdir(2): fails when the target exists or its parent is no directory *)
mkdir(files, path) ==
    IF path \notin DOMAIN files \/ files[path] # "none"
           \/ ~IsDir(files, dirname(path))
    THEN [rc |-> -1, fs |-> files]
    ELSE [rc |-> 0, fs |-> [files EXCEPT ![path] = "dir"]]

(* tagfs_dir_create: mkdir, then chown when uid and gid are both non-zero *)
tagfs_dir_create(files, mpt, rpath, mode, uid, gid) ==
    LET md == mkdir(files, realpath(mpt \o <<"/">> \o rpath))
    IN  IF md.rc # 0 THEN [rc |-> -1, fs |-> files]
        ELSE IF uid # 0 /\ gid # 0 THEN [rc |-> -1, fs |-> md.fs]
        ELSE [rc |-> 0, fs |-> md.fs]

(* one processed entry: what replay did with entry i, the path it acted on *)
(* and the MAP_CREATE call it issued, if any                               *)
Played(st, i, what, path, call) ==
    [st EXCEPT !.trace = Append(@, [i |-> i, what |-> what, path |-> path,
                                    call |-> call])]

(* Mutant: only extents at offset 0 make replay skip a FILE entry. *)
skip_file_offsets(fc) == Cardinality(ZeroOffsetExtents(fc))

(* the count skip_file of tagfs_logplay for a FILE entry *)
skip_file(fc) ==
    (IF path_is_relative(fc.relpath) THEN 0 ELSE 1)
        + Cardinality(ZeroOffsetExtents(fc))

(* Mutant: dry-run is not looked at *)
DryRunStops_never(dry_run) == FALSE

(* if (dry_run) continue; *)
DryRunStops(dry_run) == dry_run

(* case TAGFS_LOG_FILE of tagfs_logplay *)
PlayFile(st, fc, i, dry_run, kernel_rc) ==
    LET rpath == realpath(Mpt \o <<"/">> \o fc.relpath)
        cr == tagfs_file_create(st.fs, rpath,
                                IF file_not_tagfs(rpath) THEN -1 ELSE 0)
        call == tagfs_file_map_create(rpath, fc.size, fc.nextents,
                                      ReplayExtents(fc), "REG", kernel_rc)
    IN  IF skip_file(fc) # 0 THEN Played(st, i, "skipped", <<>>, <<>>)
        ELSE IF DryRunStops(dry_run) THEN Played(st, i, "dry", rpath, <<>>)
        ELSE IF TargetExists(st.fs, rpath)
        THEN Played(st, i, "exists", rpath, <<>>)
        ELSE IF cr.fd < 0
        THEN Played([st EXCEPT !.fs = unlink(cr.fs, rpath)],
                    i, "nocreate", rpath, <<>>)
        ELSE Played([st EXCEPT !.fs = cr.fs,
                               !.calls = Append(@, call)],
                    i, "mapped", rpath, <<call>>)

(* case TAGFS_LOG_MKDIR of tagfs_logplay *)
PlayDir(st, md, i, dry_run) ==
    LET rpath == realpath(Mpt \o <<"/">> \o md.relpath)
        dc == tagfs_dir_create(st.fs, Mpt, md.relpath,
                               md.fc_mode, md.fc_uid, md.fc_gid)
    IN  IF ~path_is_relative(md.relpath)
        THEN Played(st, i, "skipped", <<>>, <<>>)
        ELSE IF DryRunStops(dry_run) THEN Played(st, i, "dry", rpath, <<>>)
        ELSE IF st.fs[rpath] # "none"
        THEN Played(st, i, "exists", rpath, <<>>)
        ELSE Played([st EXCEPT !.fs = dc.fs], i,
                    IF dc.rc # 0 THEN "mkdirfailed" ELSE "mkdir",
                    rpath, <<>>)

(* the loop of tagfs_logplay over the entries i .. next_index-1 *)
RECURSIVE PlayEntries(_, _, _, _, _)
PlayEntries(st, logp, i, dry_run, kernel_rc) ==
    IF i >= logp.next_index THEN st
    ELSE LET le == logp.entries[i]
         IN  PlayEntries(
                 IF le.type = "FILE"
                 THEN PlayFile(st, le, i, dry_run, kernel_rc)
                 ELSE IF le.type = "MKDIR"
                 THEN PlayDir(st, le, i, dry_run)
                 ELSE Played(st, i, "invalid", <<>>, <<>>),
                 logp, i + 1, dry_run, kernel_rc)

(* tagfs_logplay: its return, the files afterwards, the MAP_CREATE calls   *)
(* issued and what was done with each entry.  kernel_rc is the kernel's    *)
(* answer to the MAP_CREATE calls of this pass.                            *)
tagfs_logplay(logp, files, dry_run, kernel_rc) ==
    IF tagfs_log_full(logp)
    THEN [rc |-> -1, fs |-> files, calls |-> <<>>, trace |-> <<>>]
    ELSE [rc |-> 0]
             @@ PlayEntries([fs |-> files, calls |-> <<>>, trace |-> <<>>],
                            logp, 0, dry_run, kernel_rc)

(***************************************************************************)
(* Replay of a log found on the device over a fresh mount.  The log holds  *)
(* entries written by any host: FILE entries with one and two extents, a   *)
(* FILE entry with an extent at offset 0, FILE and MKDIR entries with an   *)
(* absolute path, and a MKDIR entry.                                       *)
(***************************************************************************)
PlayNames == {<<"a">>, <<"b">>, <<"c">>, <<"d">>, <<"x">>}

FileEntry(relpath, size, ext_list) ==
    [type |-> "FILE", seqnum |-> 0, relpath |-> relpath, size |-> size,
     nextents |-> Len(ext_list), ext_list |-> ext_list,
     ext_type |-> [i \in 1..Len(ext_list) |-> "SIMPLE"],
     fc_mode |-> FileMode, fc_uid |-> 0, fc_gid |-> 0]

DirEntry(relpath, mode, uid, gid) ==
    [type |-> "MKDIR", seqnum |-> 0, relpath |-> relpath, size |-> 0,
     nextents |-> 0, ext_list |-> <<>>, ext_type |-> <<>>,
     fc_mode |-> mode, fc_uid |-> uid, fc_gid |-> gid]

PlayEntrySet ==
    {FileEntry(<<"c">>, 2, <<[offset |-> 10, len |-> 2]>>),
     FileEntry(<<"b">>, 4, <<[offset |-> 12, len |-> 2],
                            [offset |-> 14, len |-> 2]>>),
     FileEntry(<<"a">>, 4, <<[offset |-> 10, len |-> 2],
                            [offset |-> 0, len |-> 2]>>),
     FileEntry(<<"/", "x">>, 2, <<[offset |-> 16, len |-> 2]>>),
     DirEntry(<<"d">>, FileMode, 0, 0),
     DirEntry(<<"/", "x">>, FileMode, 0, 0)}

(* the logs that n appends of such entries leave *)
RECURSIVE LogsOfLen(_)
LogsOfLen(n) ==
    IF n = 0 THEN {EmptyLog(TAGFS_LOG_MAGIC, MaxLastIndex)}
    ELSE {tagfs_append_log(l, e).log :
              l \in LogsOfLen(n - 1), e \in PlayEntrySet}

PlayLogs == UNION {LogsOfLen(n) : n \in 0..MaxLastIndex}

InitPlay ==
    /\ meta = MetaInPlace
    /\ procs = NoProcs
    /\ sb = [magic |-> TAGFS_SUPER_MAGIC, devsize |-> 128,
             log_offset |-> TAGFS_LOG_OFFSET, log_len |-> TAGFS_LOG_LEN]
    /\ fs = [p \in {FullPath(r) : r \in PlayNames} |-> "none"]
    /\ ioctls = <<>>
    /\ log \in PlayLogs
    /\ bmp = NoBitmap
    /\ nappend = log.next_index
    /\ last = [op |-> "init", rc |-> 0, dry |-> FALSE, trace |-> <<>>,
               calls |-> <<>>, prefs |-> fs, after_pass |-> FALSE]

(* a replay pass that did its work has completed before the operation     *)
(* recorded in l returns                                                   *)
PassDone(l) == l.op = "logplay" /\ l.rc = 0 /\ (~l.dry \/ l.after_pass)

LogPlay(dry_run, kernel_rc) ==
    \E r \in {tagfs_logplay(log, fs, dry_run, kernel_rc)} :
        /\ fs' = r.fs
        /\ ioctls' = ioctls \o r.calls
        /\ last' = [op |-> "logplay", rc |-> r.rc, dry |-> dry_run,
                    trace |-> r.trace, calls |-> r.calls, prefs |-> fs,
                    after_pass |-> PassDone(last)]
        /\ UNCHANGED <<sb, log, bmp, nappend, meta, procs>>

LogPlayAny ==
    \E dry_run \in BOOLEAN, kernel_rc \in {0, -1} :
        LogPlay(dry_run, kernel_rc)

NextPlay == LogPlayAny

SpecPlay == InitPlay /\ [][NextPlay]_vars

(* a logged path that begins with '/' *)
IsAbsolute(relpath) == relpath # <<>> /\ relpath[1] = "/"

(* the entry a trace record is about *)
EntryOf(t) == log.entries[t.i]

(* the trace records of the last replay pass *)
TraceIdx == 1..Len(last.trace)

(* C12: replay is idempotent: a replay pass that follows a completed       *)
(* replay pass of the same log creates and removes nothing and issues no   *)
(* MAP_CREATE; every target of the first pass still exists.                *)
C12_ReplayIdempotent ==
    (last.op = "logplay" /\ ~last.dry /\ last.after_pass)
        => /\ fs = last.prefs
           /\ last.calls = <<>>
           /\ \A k \in TraceIdx : last.trace[k].what \in {"skipped", "exists"}

(* a second pass over a log from which the first pass made a file and a    *)
(* directory                                                               *)
C12_Witness ==
    /\ last.op = "logplay" /\ ~last.dry /\ last.after_pass
    /\ \E p \in DOMAIN fs : fs[p] = "reg"
    /\ \E p \in DOMAIN fs : fs[p] = "dir"

HasZeroOffset(le) ==
    /\ le.type = "FILE"
    /\ \E j \in 1..le.nextents : le.ext_list[j].offset = 0

(* C14: a FILE entry with an extent at offset 0 among its nextents extents *)
(* is skipped (no file, no ioctl), and no MAP_CREATE of replay maps the    *)
(* superblock unit (an extent at offset 0 with a length).                  *)
C14_ZeroOffsetSkipped ==
    (last.op = "logplay" /\ ~last.dry)
        => /\ \A k \in TraceIdx :
                 HasZeroOffset(EntryOf(last.trace[k]))
                     => /\ last.trace[k].what = "skipped"
                        /\ last.trace[k].call = <<>>
           /\ \A c \in 1..Len(last.calls) :
                 \A j \in 1..Len(last.calls[c].ext_list) :
                    ~(/\ last.calls[c].ext_list[j].offset = 0
                      /\ last.calls[c].ext_list[j].len > 0)
           /\ \A k \in TraceIdx :
                 (/\ HasZeroOffset(EntryOf(last.trace[k]))
                  /\ \A m \in TraceIdx :
                        EntryOf(last.trace[m]).relpath
                            = EntryOf(last.trace[k]).relpath
                                => HasZeroOffset(EntryOf(last.trace[m])))
                     => fs[FullPath(EntryOf(last.trace[k]).relpath)]
                            = last.prefs[FullPath(EntryOf(last.trace[k]).relpath)]

(* a replay of a log with such an entry on a fresh mount *)
C14_Witness ==
    /\ last.op = "logplay" /\ ~last.dry /\ ~last.after_pass
    /\ \E k \in TraceIdx :
          /\ EntryOf(last.trace[k]).type = "FILE"
          /\ EntryOf(last.trace[k]).nextents = 2
          /\ EntryOf(last.trace[k]).ext_list[2].offset = 0
          /\ \E m \in TraceIdx : m > k /\ last.trace[m].what = "mapped"

(* C15: for a valid FILE entry whose target does not exist replay issues   *)
(* one MAP_CREATE with type REG, the logged size, ext_list_count =         *)
(* nextents and the logged extents, one by one.                            *)
C15_ReplayMapsLoggedExtents ==
    (last.op = "logplay" /\ ~last.dry)
        => \A k \in TraceIdx :
              last.trace[k].what = "mapped"
                  => /\ Len(last.trace[k].call) = 1
                     /\ last.trace[k].call[1].file_type = "REG"
                     /\ last.trace[k].call[1].file_size
                            = EntryOf(last.trace[k]).size
                     /\ last.trace[k].call[1].ext_list_count
                            = EntryOf(last.trace[k]).nextents
                     /\ \A j \in 1..EntryOf(last.trace[k]).nextents :
                           last.trace[k].call[1].ext_list[j]
                               = EntryOf(last.trace[k]).ext_list[j]

(* C16: a file that replay created and whose MAP_CREATE failed is          *)
(* unlinked: after replay it does not exist.                               *)
C16_FailedReplayUnlinks ==
    (last.op = "logplay" /\ ~last.dry)
        => \A k \in TraceIdx :
              (/\ last.trace[k].what = "mapped"
               /\ last.trace[k].call[1].rc # 0)
                  => fs[last.trace[k].path] = "none"

(* C17: log append is the commit point: when make_file returns failure the *)
(* log is as it was before the call (next_index and entries), and no file  *)
(* is left that make_file created without binding it.                      *)
C17_FailedMkfileLeavesNoEntry ==
    (last.op = "mkfile" /\ last.rc < 0)
        => /\ log.next_index = last.prelog.next_index
           /\ log.entries = last.prelog.entries
           /\ \A p \in DOMAIN fs :
                 fs[p] = "reg"
                     => \E c \in 1..Len(ioctls) :
                           ioctls[c].path = p /\ ioctls[c].rc = 0

(***************************************************************************)
(* make_file with a process that stops between the log append and the      *)
(* MAP_CREATE ioctl, the next mount of the device, and the replay of the   *)
(* log on it.  The files of a mount live in memory: a fresh mount has      *)
(* none of them, the log is on the device and stays.                       *)
(***************************************************************************)
InitCrash ==
    /\ meta = MetaInPlace
    /\ procs = NoProcs
    /\ InitDevice({128})
    /\ log = EmptyLog(TAGFS_LOG_MAGIC, MaxLastIndex)
    /\ bmp = NoBitmap
    /\ nappend = 0
    /\ last = Last("init", 0, 0, -1, 0, 0, <<>>, log, {})

(* tagfs_mkfile stopped after tagfs_log_file_creation returned 0 and       *)
(* before tagfs_file_map_create is called                                  *)
MkFileCrash(rel, size) ==
    LET path == FullPath(rel)
    IN  \E fc \in {tagfs_file_create(fs, path, 0)} :
            /\ fc.fd >= 0
            /\ \E fa \in {tagfs_file_alloc(log, sb, path, FileMode, 0, 0,
                                           size, 0)} :
                  /\ fa.appended = 1
                  /\ log' = fa.log
                  /\ fs' = fc.fs
                  /\ nappend' = nappend + 1
                  /\ last' = [op |-> "crash", path |-> path, size |-> size,
                              idx |-> log.next_index, offset |-> fa.offset,
                              prelog |-> log]
                  /\ UNCHANGED <<sb, ioctls, bmp, meta, procs>>

MkFileCrashAny ==
    \E rel \in RelNames, size \in 1..MaxFileSize : MkFileCrash(rel, size)

(* the next mount of the device after the process stopped *)
Remount ==
    /\ last.op = "crash"
    /\ fs' = [p \in DOMAIN fs |-> "none"]
    /\ last' = [last EXCEPT !.op = "remount"]
    /\ UNCHANGED <<sb, log, ioctls, bmp, nappend, meta, procs>>

(* the replay of the log on the fresh mount *)
LogPlayOnRemount(kernel_rc) ==
    /\ last.op = "remount"
    /\ \E r \in {tagfs_logplay(log, fs, FALSE, kernel_rc)} :
          /\ fs' = r.fs
          /\ ioctls' = ioctls \o r.calls
          /\ last' = [op |-> "replayed", path |-> last.path,
                      size |-> last.size, idx |-> last.idx,
                      offset |-> last.offset, prelog |-> last.prelog,
                      rc |-> r.rc, kernel_rc |-> kernel_rc,
                      calls |-> r.calls, trace |-> r.trace]
    /\ UNCHANGED <<sb, log, bmp, nappend, meta, procs>>

LogPlayOnRemountAny == \E kernel_rc \in {0, -1} : LogPlayOnRemount(kernel_rc)

(* a fresh mount is replayed before it is used *)
MkFileOnMount == last.op # "remount" /\ MkFileAny

MkFileCrashOnMount == last.op # "remount" /\ MkFileCrashAny

NextCrash ==
    \/ MkFileOnMount
    \/ MkFileCrashOnMount
    \/ Remount
    \/ LogPlayOnRemountAny

SpecCrash == InitCrash /\ [][NextCrash]_vars

(* the extent make_file logs for a file of a size at an offset *)
LoggedExtent(offset, size) ==
    [offset |-> offset, len |-> UnitsNeeded(size) * TAGFS_ALLOC_UNIT]

(* C18: allocate_file computes the offset from the bitmap of the current   *)
(* log, appends the FILE entry, then issues MAP_CREATE; when the process   *)
(* stops between the append and the ioctl, the replay of the log on the    *)
(* next mount creates the file and binds it to the logged extent (the      *)
(* kernel accepting the ioctl).                                            *)
C18_CrashAfterAppendIsReplayed ==
    /\ (last.op = "mkfile" /\ last.call # <<>>)
          => /\ last.offset = tagfs_alloc_bypath(last.prelog, sb, last.size)
             /\ log.entries[last.idx].ext_list
                    = <<LoggedExtent(last.offset, last.size)>>
             /\ last.call[1].ext_list = log.entries[last.idx].ext_list
    /\ last.op = "crash"
          => /\ last.offset = tagfs_alloc_bypath(last.prelog, sb, last.size)
             /\ log.entries[last.idx].ext_list
                    = <<LoggedExtent(last.offset, last.size)>>
             /\ fs[last.path] = "reg"
    /\ (last.op = "replayed" /\ last.kernel_rc = 0)
          => /\ last.rc = 0
             /\ fs[last.path] = "reg"
             /\ \E c \in 1..Len(last.calls) :
                   /\ last.calls[c].path = last.path
                   /\ last.calls[c].file_size = last.size
                   /\ last.calls[c].ext_list
                          = <<LoggedExtent(last.offset, last.size)>>

(***************************************************************************)
(* tagfs_mkdir and tagfs_file_create called on paths inside and outside    *)
(* the mount.                                                              *)
(***************************************************************************)
(* open_log_file_writable: the mount point found by walking up from a     *)
(* directory, <<>> when no directory on the way holds the log file         *)
MountOf(dir) ==
    IF dir = Mpt \/ (Len(dir) > Len(Mpt)
                        /\ SubSeq(dir, 1, Len(Mpt) + 1) = Mpt \o <<"/">>)
    THEN Mpt ELSE <<>>

(* basename *)
RECURSIVE basename(_)
basename(p) ==
    IF p = <<>> \/ p[Len(p)] = "/" THEN <<>>
    ELSE basename(SubSeq(p, 1, Len(p) - 1)) \o <<p[Len(p)]>>

(* tagfs_mkdir: its return, the files and the log afterwards *)
tagfs_mkdir(files, logp, dirpath, mode, uid, gid) ==
    LET parentdir == dirname(dirpath)
        fullpath == realpath(parentdir) \o <<"/">> \o basename(dirpath)
        mpt_out == MountOf(realpath(parentdir))
        relpath == tagfs_relpath_from_fullpath(mpt_out, fullpath)
        dc == tagfs_dir_create(files, mpt_out, relpath, mode, uid, gid)
        lr == tagfs_log_dir_creation(logp, relpath, mode, uid, gid)
    IN  IF ~IsDir(files, parentdir) \/ mpt_out = <<>>
        THEN [rc |-> -1, fs |-> files, log |-> logp]
        ELSE IF dc.rc # 0 THEN [rc |-> -1, fs |-> dc.fs, log |-> logp]
        ELSE [rc |-> lr.rc, fs |-> dc.fs, log |-> lr.log]

(* the directories asked for, and the paths files are created at *)
DirPaths == {FullPath(<<"d">>), FullPath(<<"d", "/", "e">>)}
CreatePaths == {FullPath(<<"f">>), FullPath(<<"d">>), <<"/", "o">>}

(* a log with n slots taken by files *)
RECURSIVE LogWithFiles(_)
LogWithFiles(n) ==
    IF n = 0 THEN EmptyLog(TAGFS_LOG_MAGIC, MaxLastIndex)
    ELSE tagfs_append_log(LogWithFiles(n - 1),
             FileEntry(<<"c">>, 2, <<[offset |-> 10, len |-> 2]>>)).log

InitDir ==
    /\ meta = MetaInPlace
    /\ procs = NoProcs
    /\ sb = [magic |-> TAGFS_SUPER_MAGIC, devsize |-> 128,
             log_offset |-> TAGFS_LOG_OFFSET, log_len |-> TAGFS_LOG_LEN]
    /\ fs = [p \in DirPaths \cup CreatePaths |-> "none"]
    /\ ioctls = <<>>
    /\ log \in {LogWithFiles(0), LogWithFiles(MaxLastIndex - 1)}
    /\ bmp = NoBitmap
    /\ nappend = log.next_index
    /\ last = [op |-> "init", rc |-> 0, path |-> <<>>, prefs |-> fs,
               prelog |-> log]

MkDir(dirpath, mode, uid, gid) ==
    \E r \in {tagfs_mkdir(fs, log, dirpath, mode, uid, gid)} :
        /\ fs' = r.fs
        /\ log' = r.log
        /\ nappend' = nappend + (r.log.next_index - log.next_index)
        /\ last' = [op |-> "mkdir", rc |-> r.rc, path |-> dirpath,
                    mode |-> mode, uid |-> uid, gid |-> gid,
                    prefs |-> fs, prelog |-> log]
        /\ UNCHANGED <<sb, ioctls, bmp, meta, procs>>

MkDirAny ==
    \E dirpath \in DirPaths, mode \in Modes, uid \in Ids, gid \in Ids :
        MkDir(dirpath, mode, uid, gid)

FileCreate(path) ==
    \E r \in {tagfs_file_create(fs, path,
                                IF file_not_tagfs(path) THEN -1 ELSE 0)} :
        /\ fs' = r.fs
        /\ last' = [op |-> "create", rc |-> r.fd, path |-> path,
                    fds |-> r.fds, prefs |-> fs, prelog |-> log]
        /\ UNCHANGED <<sb, log, ioctls, bmp, nappend, meta, procs>>

FileCreateAny == \E path \in CreatePaths : FileCreate(path)

NextDir == MkDirAny \/ FileCreateAny

SpecDir == InitDir /\ [][NextDir]_vars

(* C19: for every mode, uid and gid, make_dir with an existing parent      *)
(* under the mount, a target that does not exist and a log that is not     *)
(* full creates the directory and appends exactly one MKDIR entry with     *)
(* the path relative to the mount point and the requested mode, uid, gid.  *)
C19_MkdirCreatesAndLogs ==
    (/\ last.op = "mkdir"
     /\ IsDir(last.prefs, dirname(last.path))
     /\ last.prefs[last.path] = "none"
     /\ ~tagfs_log_full(last.prelog))
        => /\ last.rc = 0
           /\ fs = [last.prefs EXCEPT ![last.path] = "dir"]
           /\ log.next_index = last.prelog.next_index + 1
           /\ \A i \in 0..(last.prelog.next_index - 1) :
                 log.entries[i] = last.prelog.entries[i]
           /\ log.entries[last.prelog.next_index].type = "MKDIR"
           /\ log.entries[last.prelog.next_index].relpath
                  = SubSeq(last.path, Len(Mpt) + 2, Len(last.path))
           /\ log.entries[last.prelog.next_index].fc_mode = last.mode
           /\ log.entries[last.prelog.next_index].fc_uid = last.uid
           /\ log.entries[last.prelog.next_index].fc_gid = last.gid

(* C20: create_file on a path that exists fails and changes nothing; when  *)
(* the NOP ioctl on the new file fails, the descriptor is closed, the file *)
(* is unlinked and the return is -EBADF.                                   *)
C20_CreateFileFailures ==
    last.op = "create"
        => /\ last.prefs[last.path] # "none"
                 => last.rc < 0 /\ fs = last.prefs /\ last.fds = {}
           /\ (last.prefs[last.path] = "none" /\ file_not_tagfs(last.path))
                 => /\ last.rc = -EBADF
                    /\ last.fds = {}
                    /\ fs[last.path] = "none"
                    /\ fs = last.prefs
           /\ (last.prefs[last.path] = "none" /\ ~file_not_tagfs(last.path))
                 => /\ last.rc > 0
                    /\ fs = [last.prefs EXCEPT ![last.path] = "reg"]

(* create_file outside the mount, after a create_file on an existing path *)
(* and one that made a file                                                *)
C20_Witness ==
    /\ last.op = "create"
    /\ file_not_tagfs(last.path)
    /\ last.rc = -EBADF
    /\ fs[FullPath(<<"f">>)] = "reg"
    /\ fs[FullPath(<<"d">>)] = "dir"

(***************************************************************************)
(* tagfs_mkmeta.                                                           *)
(***************************************************************************)
sb_file == Mpt \o <<"/", ".meta", "/", ".superblock">>
log_file == Mpt \o <<"/", ".meta", "/", ".log">>

(* Mutant: a meta-file of the wrong size is left as it is. *)
UnlinkIfBadSize_keep(f, size) == f

(* a regular meta-file whose size is not the expected one is unlinked *)
UnlinkIfBadSize(f, size) ==
    IF f.kind = "reg" /\ f.size # size THEN [f EXCEPT !.kind = "none"] ELSE f

(* open(file, O_RDWR | O_CREAT): an absent file is created empty *)
OpenCreatMeta(f) ==
    IF f.kind = "none" THEN MetaFile("reg", 0, f.gen + 1) ELSE f

(* the file after MAP_CREATE: the kernel sets its size when it accepts *)
MapMeta(f, size, kernel_rc) ==
    IF kernel_rc = 0 THEN [f EXCEPT !.size = size] ELSE f

(* the second half of tagfs_mkmeta: the log file *)
MkmetaLog(m, sbp, calls, k_log) ==
    LET f1 == UnlinkIfBadSize(m.logfile, sbp.log_len)
        f2 == OpenCreatMeta(f1)
        ext == [offset |-> sbp.log_offset, len |-> sbp.log_len]
        call == tagfs_file_map_create(log_file, sbp.log_len, 1, <<ext>>,
                                      "LOG", k_log)
    IN  IF m.logfile.kind \notin {"none", "reg"}
        THEN [rc |-> -EINVAL, meta |-> m, calls |-> calls]
        ELSE [rc |-> IF k_log # 0 THEN -1 ELSE 0,
              meta |-> [m EXCEPT !.logfile = MapMeta(f2, sbp.log_len, k_log)],
              calls |-> Append(calls, call)]

(* tagfs_mkmeta: its return, the meta-files afterwards and the MAP_CREATE  *)
(* calls it issued; k_sb and k_log are the kernel's answers                *)
tagfs_mkmeta(m0, sbp, k_sb, k_log) ==
    LET m1 == [m0 EXCEPT !.dir = "dir", !.runs = @ + 1]
        f1 == UnlinkIfBadSize(m1.sbfile, TAGFS_SUPERBLOCK_SIZE)
        m2 == [m1 EXCEPT !.sbfile = f1]
        f2 == OpenCreatMeta(f1)
        ext == [offset |-> 0, len |-> TAGFS_SUPERBLOCK_SIZE]
        call == tagfs_file_map_create(sb_file, TAGFS_SUPERBLOCK_SIZE, 1,
                                      <<ext>>, "SUPERBLOCK", k_sb)
        m3 == [m2 EXCEPT !.sbfile = MapMeta(f2, TAGFS_SUPERBLOCK_SIZE, k_sb)]
    IN  IF m1.sbfile.kind \notin {"none", "reg"}
        THEN [rc |-> -EINVAL, meta |-> m1, calls |-> <<>>]
        ELSE IF tagfs_check_super(sbp) # 0
        THEN [rc |-> -1, meta |-> m2, calls |-> <<>>]
        ELSE IF k_sb # 0 THEN [rc |-> -1, meta |-> m3, calls |-> <<call>>]
        ELSE MkmetaLog(m3, sbp, <<call>>, k_log)

(***************************************************************************)
(* tagfs_cp: the source is given by whether stat finds it and its size.    *)
(***************************************************************************)
tagfs_cp(files, logp, sbp, src_exists, src_size, destfile, kernel_rc) ==
    LET cr == tagfs_file_create(files, destfile,
                                IF file_not_tagfs(destfile) THEN -1 ELSE 0)
        fa == tagfs_file_alloc(logp, sbp, destfile, FileMode, 0, 0,
                               src_size, kernel_rc)
        none == [rc |-> 0, fs |-> files, log |-> logp, call |-> <<>>]
    IN  IF files[destfile] # "none" THEN none
        ELSE IF ~src_exists THEN [none EXCEPT !.rc = -1]
        ELSE IF cr.fd < 0
        THEN [none EXCEPT !.rc = cr.fd, !.fs = unlink(cr.fs, destfile)]
        ELSE IF fa.rc # 0
        THEN [rc |-> -1, fs |-> unlink(cr.fs, destfile), log |-> fa.log,
              call |-> fa.call]
        ELSE [rc |-> 0, fs |-> cr.fs, log |-> fa.log, call |-> fa.call]

(***************************************************************************)
(* One mount from mkmeta on: mkmeta (a second time too), then make_file,   *)
(* cp and replay once the meta-files are in place.  The mount starts with  *)
(* no .meta directory, with meta-files in place, with a meta-file of the   *)
(* wrong size, or with a directory where the superblock file belongs.      *)
(***************************************************************************)
MetaStarts ==
    {[dir |-> "none", sbfile |-> MetaFile("none", 0, 0),
      logfile |-> MetaFile("none", 0, 0), runs |-> 0],
     MetaInPlace,
     [MetaInPlace EXCEPT !.sbfile = MetaFile("reg", 0, 0)],
     [MetaInPlace EXCEPT !.logfile = MetaFile("reg", 0, 0)],
     [MetaInPlace EXCEPT !.sbfile = MetaFile("dir", 0, 0)],
     [MetaInPlace EXCEPT !.logfile = MetaFile("dir", 0, 0)]}

InitMetaOn(log_lens) ==
    /\ \E magic \in {TAGFS_SUPER_MAGIC, 0}, log_len \in log_lens :
          sb = [magic |-> magic, devsize |-> 128,
                log_offset |-> TAGFS_LOG_OFFSET, log_len |-> log_len]
    /\ meta \in MetaStarts
    /\ procs = NoProcs
    /\ fs = [p \in {FullPath(r) : r \in RelNames} |-> "none"]
    /\ ioctls = <<>>
    /\ log = EmptyLog(TAGFS_LOG_MAGIC, MaxLastIndex)
    /\ bmp = NoBitmap
    /\ nappend = 0
    /\ last = [op |-> "init", rc |-> 0, calls |-> <<>>, premeta |-> meta]

InitMeta == InitMetaOn({TAGFS_LOG_LEN})

MkMeta(k_sb, k_log) ==
    /\ meta.runs < MaxMkmeta
    /\ \E r \in {tagfs_mkmeta(meta, sb, k_sb, k_log)} :
          /\ meta' = r.meta
          /\ ioctls' = ioctls \o r.calls
          /\ last' = [op |-> "mkmeta", rc |-> r.rc, calls |-> r.calls,
                      premeta |-> meta]
    /\ UNCHANGED <<sb, log, fs, bmp, nappend, procs>>

MkMetaAny == \E k_sb \in {0, -1}, k_log \in {0, -1} : MkMeta(k_sb, k_log)

(* the superblock is valid and both meta-files are there, correctly sized *)
MetaReady ==
    /\ tagfs_check_super(sb) = 0
    /\ meta.sbfile = [meta.sbfile EXCEPT !.kind = "reg",
                                         !.size = TAGFS_SUPERBLOCK_SIZE]
    /\ meta.logfile = [meta.logfile EXCEPT !.kind = "reg",
                                           !.size = sb.log_len]

Cp(src_exists, src_size, rel, kernel_rc) ==
    \E r \in {tagfs_cp(fs, log, sb, src_exists, src_size, FullPath(rel),
                       kernel_rc)} :
        /\ fs' = r.fs
        /\ log' = r.log
        /\ ioctls' = ioctls \o r.call
        /\ nappend' = nappend + (r.log.next_index - log.next_index)
        /\ last' = [op |-> "cp", rc |-> r.rc, calls |-> r.call,
                    path |-> FullPath(rel), src_exists |-> src_exists,
                    size |-> src_size, prefs |-> fs, prelog |-> log]
        /\ UNCHANGED <<sb, bmp, meta, procs>>

CpAny ==
    \E src_exists \in BOOLEAN, kernel_rc \in {0, -1} :
        Cp(src_exists, MaxFileSize, <<"b">>, kernel_rc)

MkFileMounted ==
    /\ MetaReady
    /\ \E kernel_rc \in {0, -1} : MkFile(<<"a">>, 1, kernel_rc)

CpMounted == MetaReady /\ CpAny

LogPlayMounted == MetaReady /\ LogPlay(FALSE, 0)

NextMeta ==
    \/ MkMetaAny
    \/ MkFileMounted
    \/ CpMounted
    \/ LogPlayMounted

SpecMeta == InitMeta /\ [][NextMeta]_vars

(* mkmeta alone, run and run again *)
NextMkmeta == MkMetaAny

InitMkmeta == InitMetaOn({TAGFS_LOG_LEN, TAGFS_LOG_LEN \div 2})

SpecMkmeta == InitMkmeta /\ [][NextMkmeta]_vars

(* the MAP_CREATE calls issued in a step *)
NewCalls == (Len(ioctls) + 1)..Len(ioctls')

(* C21: MAP_CREATE is issued at most once for any given file: a step       *)
(* issues it only on a file that the step itself created (the path was     *)
(* free before the step, or the meta-file at the path was replaced in it), *)
(* and once.                                                               *)
C21_MapCreateOncePerFile ==
    [][\A k \in NewCalls :
          /\ ioctls'[k].path = sb_file
                => meta'.sbfile.gen # meta.sbfile.gen
          /\ ioctls'[k].path = log_file
                => meta'.logfile.gen # meta.logfile.gen
          /\ ioctls'[k].path \in DOMAIN fs => fs[ioctls'[k].path] = "none"
          /\ \A j \in NewCalls : j # k => ioctls'[j].path # ioctls'[k].path
      ]_vars

(* C22: after a successful mkmeta on a device with a valid superblock the  *)
(* superblock file is bound by one MAP_CREATE of type SUPERBLOCK to        *)
(* [0, SUPERBLOCK_SIZE) and the log file by one of type LOG to             *)
(* [log_offset, log_offset + log_len), sizes taken from the superblock; a  *)
(* meta-file of the wrong size was replaced; with an invalid superblock    *)
(* no meta-file is created or bound.                                       *)
C22_MkmetaBindsMetaFiles ==
    last.op = "mkmeta"
        => /\ (last.rc = 0 /\ tagfs_check_super(sb) = 0)
                 => /\ last.calls
                        = <<[path |-> sb_file, file_type |-> "SUPERBLOCK",
                             file_size |-> TAGFS_SUPERBLOCK_SIZE,
                             ext_list_count |-> 1,
                             ext_list |-> <<[offset |-> 0,
                                             len |-> TAGFS_SUPERBLOCK_SIZE]>>,
                             rc |-> 0],
                            [path |-> log_file, file_type |-> "LOG",
                             file_size |-> sb.log_len,
                             ext_list_count |-> 1,
                             ext_list |-> <<[offset |-> sb.log_offset,
                                             len |-> sb.log_len]>>,
                             rc |-> 0]>>
                    /\ meta.sbfile.kind = "reg"
                    /\ meta.sbfile.size = TAGFS_SUPERBLOCK_SIZE
                    /\ meta.logfile.kind = "reg"
                    /\ meta.logfile.size = sb.log_len
                    /\ (/\ last.premeta.sbfile.kind = "reg"
                        /\ last.premeta.sbfile.size # TAGFS_SUPERBLOCK_SIZE)
                          => meta.sbfile.gen # last.premeta.sbfile.gen
                    /\ (/\ last.premeta.logfile.kind = "reg"
                        /\ last.premeta.logfile.size # sb.log_len)
                          => meta.logfile.gen # last.premeta.logfile.gen
           /\ tagfs_check_super(sb) # 0
                 => /\ last.rc < 0
                    /\ last.calls = <<>>
                    /\ meta.sbfile.gen = last.premeta.sbfile.gen
                    /\ meta.sbfile.size = last.premeta.sbfile.size
                    /\ meta.logfile = last.premeta.logfile

(* a successful mkmeta that found a superblock file of the wrong size *)
C22_Witness ==
    /\ last.op = "mkmeta" /\ last.rc = 0
    /\ last.premeta.sbfile.kind = "reg"
    /\ last.premeta.sbfile.size # TAGFS_SUPERBLOCK_SIZE
    /\ meta.sbfile.size = TAGFS_SUPERBLOCK_SIZE

(***************************************************************************)
(* fsck, once the superblock and the log have been read or mapped.         *)
(***************************************************************************)
(* tagfs_fsck_scan: the error count of the bitmap builder *)
tagfs_fsck_scan(sbp, logp) == tagfs_build_bitmap(logp, sbp.devsize).errors

(* Mutant: the scan without the superblock test *)
tagfs_fsck_nocheck(sbp, logp) == tagfs_fsck_scan(sbp, logp)

tagfs_fsck(sbp, logp) ==
    IF tagfs_check_super(sbp) # 0 THEN -1 ELSE tagfs_fsck_scan(sbp, logp)

InitFsck ==
    /\ meta = MetaInPlace
    /\ procs = NoProcs
    /\ \E magic \in {TAGFS_SUPER_MAGIC, 0} :
          sb = [magic |-> magic, devsize |-> 128,
                log_offset |-> TAGFS_LOG_OFFSET, log_len |-> TAGFS_LOG_LEN]
    /\ fs = [p \in {FullPath(r) : r \in RelNames} |-> "none"]
    /\ ioctls = <<>>
    /\ log = EmptyLog(TAGFS_LOG_MAGIC, MaxLastIndex)
    /\ bmp = NoBitmap
    /\ nappend = 0
    /\ last = [op |-> "init", rc |-> 0]

Fsck ==
    /\ last' = [op |-> "fsck", rc |-> tagfs_fsck(sb, log)]
    /\ UNCHANGED <<sb, log, fs, ioctls, bmp, nappend, meta, procs>>

NextFsck == AppendLogAny \/ Fsck

SpecFsck == InitFsck /\ [][NextFsck]_vars

(* C23: fsck returns the collision count of the bitmap rebuilt from the    *)
(* log: 0 exactly when the superblock is valid and no reference hits a     *)
(* unit already taken, otherwise the (positive) error count of the bitmap  *)
(* builder, and a negative value, never 0, when the magic is invalid.      *)
C23_FsckCountsCollisions ==
    last.op = "fsck"
        => \A refs \in {UnitRefs(log)} :
           \A n \in {Cardinality({r \in refs : HitsSetBit(refs, r)})} :
              /\ last.rc = 0 <=> (tagfs_check_super(sb) = 0 /\ n = 0)
              /\ (tagfs_check_super(sb) = 0 /\ n > 0)
                    => /\ last.rc = n
                       /\ last.rc = tagfs_build_bitmap(log, DevSize).errors
              /\ tagfs_check_super(sb) # 0 => last.rc < 0

(* fsck of a valid device whose log holds two collisions *)
C23_Witness ==
    /\ last.op = "fsck" /\ last.rc = 2
    /\ tagfs_check_super(sb) = 0

(***************************************************************************)
(* Mount discovery: __open_relpath walks upward from a path until a        *)
(* directory holds the regular file <relpath>.  The tree is the chain      *)
(* /mnt/t/a/b with the file c in b; any directory of it below the root     *)
(* may hold .meta/.log, as a regular file or as something else.            *)
(***************************************************************************)
LOG_FILE_RELPATH == <<".meta", "/", ".log">>

WalkDirs ==
    {<<"/">>, <<"/", "mnt">>, <<"/", "mnt", "/", "t">>,
     <<"/", "mnt", "/", "t", "/", "a">>,
     <<"/", "mnt", "/", "t", "/", "a", "/", "b">>}

WalkLeaf == <<"/", "mnt", "/", "t", "/", "a", "/", "b", "/", "c">>

(* a path that names nothing *)
WalkNowhere == <<"/", "mnt", "/", "x">>

(* "%s/%s" of a directory and a relative path, as stat resolves it *)
RelpathUnder(rpath, relpath) == realpath(rpath \o <<"/">> \o relpath)

WalkTrees ==
    {t \in [WalkDirs \cup {WalkLeaf, WalkNowhere}
               \cup {RelpathUnder(d, LOG_FILE_RELPATH) : d \in WalkDirs}
            -> {"none", "dir", "reg"}] :
        /\ \A d \in WalkDirs : t[d] = "dir"
        /\ t[WalkLeaf] \in {"none", "reg"}
        /\ t[WalkNowhere] = "none"
        /\ t[RelpathUnder(<<"/">>, LOG_FILE_RELPATH)] = "none"}

(* stat(2) finds the path *)
Resolvable(files, path) == path \in DOMAIN files /\ files[path] # "none"

(* Mutant: anything named <relpath> will do *)
RelpathIsReg_any(files, log_path) == files[log_path] # "none"

(* stat(log_path) succeeds and finds a regular file *)
RelpathIsReg(files, log_path) == files[log_path] = "reg"

(* the loop of __open_relpath from rpath upward; open_fd is what open(2)   *)
(* answers                                                                 *)
RECURSIVE WalkUp(_, _, _, _)
WalkUp(files, rpath, relpath, open_fd) ==
    IF /\ files[rpath] = "dir"
       /\ RelpathIsReg(files, RelpathUnder(rpath, relpath))
    THEN [fd |-> open_fd, mpt |-> rpath]
    ELSE IF dirname(rpath) = <<"/">> THEN [fd |-> -1, mpt |-> <<>>]
    ELSE WalkUp(files, dirname(rpath), relpath, open_fd)

(* __open_relpath: the returned descriptor and mpt_out *)
open_relpath(files, path, relpath, open_fd) ==
    IF ~Resolvable(files, path) THEN [fd |-> 0, mpt |-> <<>>]
    ELSE WalkUp(files, realpath(path), relpath, open_fd)

open_log_file_writable(files, path, open_fd) ==
    open_relpath(files, path, LOG_FILE_RELPATH, open_fd)

InitWalk ==
    /\ meta = MetaInPlace
    /\ procs = NoProcs
    /\ sb = [magic |-> TAGFS_SUPER_MAGIC, devsize |-> 128,
             log_offset |-> TAGFS_LOG_OFFSET, log_len |-> TAGFS_LOG_LEN]
    /\ fs \in WalkTrees
    /\ ioctls = <<>>
    /\ log = EmptyLog(TAGFS_LOG_MAGIC, MaxLastIndex)
    /\ bmp = NoBitmap
    /\ nappend = 0
    /\ last = [op |-> "init", path |-> <<>>, fd |-> 0, mpt |-> <<>>,
               open_fd |-> 0]

OpenLogFile(path, open_fd) ==
    /\ \E r \in {open_log_file_writable(fs, path, open_fd)} :
          last' = [op |-> "open_relpath", path |-> path, fd |-> r.fd,
                   mpt |-> r.mpt, open_fd |-> open_fd]
    /\ UNCHANGED <<sb, log, fs, ioctls, bmp, nappend, meta, procs>>

OpenLogFileAny ==
    \E path \in WalkDirs \cup {WalkLeaf, WalkNowhere}, open_fd \in {3, -1} :
        OpenLogFile(path, open_fd)

NextWalk == OpenLogFileAny

SpecWalk == InitWalk /\ [][NextWalk]_vars

(* d is the path or one of its ancestors *)
IsAncestorOrSelf(d, path) ==
    /\ Len(d) <= Len(path)
    /\ SubSeq(path, 1, Len(d)) = d
    /\ (Len(d) = Len(path) \/ d = <<"/">> \/ path[Len(d) + 1] = "/")

(* the directories at or above the path that hold the regular file         *)
(* .meta/.log                                                              *)
Holders(files, path) ==
    {d \in WalkDirs :
        /\ IsAncestorOrSelf(d, path)
        /\ files[RelpathUnder(d, LOG_FILE_RELPATH)] = "reg"}

Nearest(ds) == CHOOSE d \in ds : \A e \in ds : Len(e) <= Len(d)

(* C24: from any existing path inside a mount the upward walk returns the  *)
(* nearest directory at or above the path that holds the regular file      *)
(* .meta/.log, and opens that file; from /mnt/t/a/b/c with the file in     *)
(* /mnt/t it yields /mnt/t.                                                *)
C24_WalkFindsNearestMount ==
    (/\ last.op = "open_relpath"
     /\ Resolvable(fs, last.path)
     /\ Holders(fs, last.path) # {})
        => /\ last.mpt = Nearest(Holders(fs, last.path))
           /\ last.fd = last.open_fd

(* from /mnt/t/a/b/c the walk passes a directory named .meta/.log in b and *)
(* stops at /mnt/t                                                         *)
C24_Witness ==
    /\ last.op = "open_relpath"
    /\ last.path = WalkLeaf
    /\ fs[RelpathUnder(<<"/", "mnt", "/", "t", "/", "a", "/", "b">>,
                       LOG_FILE_RELPATH)] = "dir"
    /\ last.mpt = <<"/", "mnt", "/", "t">>
    /\ last.fd = 3

(* C25: the upward walk always ends, and when the starting path cannot be  *)
(* resolved or no directory up to the root holds the meta-file it reports  *)
(* failure with a negative result.                                         *)
C25_WalkFailsNegative ==
    (/\ last.op = "open_relpath"
     /\ (~Resolvable(fs, last.path) \/ Holders(fs, last.path) = {}))
        => last.fd < 0

(***************************************************************************)
(* tagfs_append_log step by step, for processes that share the log.  Each  *)
(* writer w appends FILE entries named after itself; the k-th has size k.  *)
(* The copy of an entry is two stores (memcpy is not atomic), and each     *)
(* counter increment is a load followed by a store.  A reader runs the     *)
(* loop of tagfs_logplay or tagfs_build_bitmap over the same log.          *)
(***************************************************************************)
Writers == {"w1", "w2"}

(* the entry that writer w passes on its k-th call *)
EntryFrom(w, k) ==
    [ZeroEntry EXCEPT !.type = "FILE", !.relpath = <<w>>, !.size = k,
                      !.nextents = 1,
                      !.ext_list = <<[offset |-> 10, len |-> 2]>>]

(* the fields that the first store of the copy carries *)
FirstHalf == {"type", "seqnum", "relpath"}

(* slot content after the first and after the second store of the copy *)
CopyFirstHalf(slot, e) ==
    [f \in DOMAIN slot |-> IF f \in FirstHalf THEN e[f] ELSE slot[f]]

CopySecondHalf(slot, e) ==
    [f \in DOMAIN slot |-> IF f \in FirstHalf THEN slot[f] ELSE e[f]]

(* Mutant: next_index is advanced before the entry is copied *)
PcAfter_early(pc) ==
    CASE pc = "stamp" -> "ldidx"
      [] pc = "ldidx" -> "stidx"
      [] pc = "stidx" -> "copy1"
      [] pc = "copy1" -> "copy2"
      [] pc = "copy2" -> "ldseq"
      [] pc = "ldseq" -> "stseq"
      [] pc = "stseq" -> "ret"

(* the statements of tagfs_append_log after its tests, in program order *)
PcAfter(pc) ==
    CASE pc = "stamp" -> "copy1"
      [] pc = "copy1" -> "copy2"
      [] pc = "copy2" -> "ldseq"
      [] pc = "ldseq" -> "stseq"
      [] pc = "stseq" -> "ldidx"
      [] pc = "ldidx" -> "stidx"
      [] pc = "stidx" -> "ret"

IdleWriter ==
    [pc |-> "idle", e |-> ZeroEntry, idx |-> 0, tmp |-> 0, calls |-> 0,
     acked |-> <<>>]

IdleReader(kind) ==
    [pc |-> "start", kind |-> kind, i |-> 0, obs |-> 0, le |-> ZeroEntry,
     whole |-> TRUE, seen |-> <<>>, rc |-> 0]

(* Mutant: the mutex never holds anybody back *)
MutexFree_always(p) == TRUE

MutexFree(p) == ~p.use_mutex \/ p.holder = "none"

(* the caller takes the external mutex (when there is one) and enters *)
Enter(w) ==
    /\ procs.w[w].pc = "idle"
    /\ procs.w[w].calls < MaxAppends
    /\ MutexFree(procs)
    /\ procs' = [procs EXCEPT !.holder = IF procs.use_mutex THEN w ELSE @,
                              !.w[w].pc = "test",
                              !.w[w].calls = @ + 1,
                              !.w[w].e = EntryFrom(w, procs.w[w].calls + 1)]
    /\ UNCHANGED <<sb, log, fs, ioctls, last, bmp, nappend, meta>>

(* the magic and log-full tests *)
TestFull(w) ==
    /\ procs.w[w].pc = "test"
    /\ procs' = [procs EXCEPT
                   !.w[w].pc = IF log.magic # TAGFS_LOG_MAGIC
                                  \/ AppendLogIsFull(log)
                               THEN "ret" ELSE "stamp",
                   !.w[w].tmp = IF log.magic # TAGFS_LOG_MAGIC THEN -EINVAL
                                ELSE IF AppendLogIsFull(log) THEN -E2BIG
                                ELSE 0]
    /\ UNCHANGED <<sb, log, fs, ioctls, last, bmp, nappend, meta>>

(* e->seqnum = logp->next_seqnum *)
Stamp(w) ==
    /\ procs.w[w].pc = "stamp"
    /\ procs' = [procs EXCEPT !.w[w].pc = PcAfter("stamp"),
                              !.w[w].e.seqnum = log.next_seqnum]
    /\ UNCHANGED <<sb, log, fs, ioctls, last, bmp, nappend, meta>>

(* memcpy(&logp->entries[logp->next_index], e): the first store *)
Copy1(w) ==
    /\ procs.w[w].pc = "copy1"
    /\ log' = [log EXCEPT !.entries[log.next_index] =
                              CopyFirstHalf(@, procs.w[w].e)]
    /\ procs' = [procs EXCEPT !.w[w].pc = PcAfter("copy1"),
                              !.w[w].idx = log.next_index,
                              !.torn = @ \cup {log.next_index}]
    /\ UNCHANGED <<sb, fs, ioctls, last, bmp, nappend, meta>>

(* the second store of the copy *)
Copy2(w) ==
    /\ procs.w[w].pc = "copy2"
    /\ log' = [log EXCEPT !.entries[procs.w[w].idx] =
                              CopySecondHalf(@, procs.w[w].e)]
    /\ procs' = [procs EXCEPT !.w[w].pc = PcAfter("copy2"),
                              !.torn = @ \ {procs.w[w].idx}]
    /\ UNCHANGED <<sb, fs, ioctls, last, bmp, nappend, meta>>

(* logp->next_seqnum++ *)
LoadSeqnum(w) ==
    /\ procs.w[w].pc = "ldseq"
    /\ procs' = [procs EXCEPT !.w[w].pc = PcAfter("ldseq"),
                              !.w[w].tmp = log.next_seqnum]
    /\ UNCHANGED <<sb, log, fs, ioctls, last, bmp, nappend, meta>>

StoreSeqnum(w) ==
    /\ procs.w[w].pc = "stseq"
    /\ log' = [log EXCEPT !.next_seqnum = procs.w[w].tmp + 1]
    /\ procs' = [procs EXCEPT !.w[w].pc = PcAfter("stseq")]
    /\ UNCHANGED <<sb, fs, ioctls, last, bmp, nappend, meta>>

(* logp->next_index++ *)
LoadIndex(w) ==
    /\ procs.w[w].pc = "ldidx"
    /\ procs' = [procs EXCEPT !.w[w].pc = PcAfter("ldidx"),
                              !.w[w].tmp = log.next_index]
    /\ UNCHANGED <<sb, log, fs, ioctls, last, bmp, nappend, meta>>

StoreIndex(w) ==
    /\ procs.w[w].pc = "stidx"
    /\ log' = [log EXCEPT !.next_index = procs.w[w].tmp + 1]
    /\ procs' = [procs EXCEPT !.w[w].pc = PcAfter("stidx"),
                              !.w[w].tmp = 0]
    /\ UNCHANGED <<sb, fs, ioctls, last, bmp, nappend, meta>>

(* return to the caller, who gives the mutex back *)
Return(w) ==
    /\ procs.w[w].pc = "ret"
    /\ procs' = [procs EXCEPT
                   !.holder = IF procs.holder = w THEN "none" ELSE @,
                   !.w[w].pc = "idle",
                   !.w[w].acked = IF procs.w[w].tmp = 0
                                  THEN Append(@, procs.w[w].e) ELSE @]
    /\ UNCHANGED <<sb, log, fs, ioctls, last, bmp, nappend, meta>>

WriterStep ==
    \E w \in DOMAIN procs.w :
        \/ Enter(w)
        \/ TestFull(w)
        \/ Stamp(w)
        \/ Copy1(w)
        \/ Copy2(w)
        \/ LoadSeqnum(w)
        \/ StoreSeqnum(w)
        \/ LoadIndex(w)
        \/ StoreIndex(w)
        \/ Return(w)

(* tagfs_logplay starts with the tagfs_log_full test; the bitmap builder   *)
(* goes straight to its loop                                               *)
ReaderStart ==
    /\ procs.r.pc = "start"
    /\ procs' = [procs EXCEPT
                   !.r.pc = IF procs.r.kind = "logplay" /\ tagfs_log_full(log)
                            THEN "done" ELSE "loop",
                   !.r.rc = IF procs.r.kind = "logplay" /\ tagfs_log_full(log)
                            THEN -1 ELSE 0]
    /\ UNCHANGED <<sb, log, fs, ioctls, last, bmp, nappend, meta>>

(* the loop test i < logp->next_index, which reads next_index every time;  *)
(* whole records whether every slot below the value read has been copied   *)
(* completely at that moment                                               *)
ReaderTest ==
    /\ procs.r.pc = "loop"
    /\ procs' = [procs EXCEPT
                   !.r.pc = IF procs.r.i < log.next_index
                            THEN "read1" ELSE "done",
                   !.r.obs = log.next_index,
                   !.r.whole = procs.torn \cap (0..(log.next_index - 1)) = {}]
    /\ UNCHANGED <<sb, log, fs, ioctls, last, bmp, nappend, meta>>

(* the reader takes entries[i], in two loads *)
ReaderRead1 ==
    /\ procs.r.pc = "read1"
    /\ procs' = [procs EXCEPT
                   !.r.pc = "read2",
                   !.r.le = CopyFirstHalf(ZeroEntry, log.entries[procs.r.i])]
    /\ UNCHANGED <<sb, log, fs, ioctls, last, bmp, nappend, meta>>

ReaderRead2 ==
    /\ procs.r.pc = "read2"
    /\ procs' = [procs EXCEPT
                   !.r.pc = "loop",
                   !.r.i = @ + 1,
                   !.r.le = ZeroEntry,
                   !.r.seen = Append(@,
                       [i |-> procs.r.i, obs |-> procs.r.obs,
                        whole |-> procs.r.whole,
                        le |-> CopySecondHalf(procs.r.le,
                                              log.entries[procs.r.i])])]
    /\ UNCHANGED <<sb, log, fs, ioctls, last, bmp, nappend, meta>>

ReaderStep == ReaderStart \/ ReaderTest \/ ReaderRead1 \/ ReaderRead2

InitShared ==
    /\ meta = MetaInPlace
    /\ sb = [magic |-> TAGFS_SUPER_MAGIC, devsize |-> 128,
             log_offset |-> TAGFS_LOG_OFFSET, log_len |-> TAGFS_LOG_LEN]
    /\ fs = [p \in {FullPath(r) : r \in RelNames} |-> "none"]
    /\ ioctls = <<>>
    /\ log = EmptyLog(TAGFS_LOG_MAGIC, MaxLastIndex)
    /\ bmp = NoBitmap
    /\ nappend = 0
    /\ last = [op |-> "init", rc |-> 0]

(* one appender and one reader *)
InitReader ==
    /\ InitShared
    /\ \E kind \in {"logplay", "bitmap"}, use_mutex \in BOOLEAN :
          procs = [use_mutex |-> use_mutex, holder |-> "none", torn |-> {},
                   w |-> [w \in {"w1"} |-> IdleWriter],
                   r |-> IdleReader(kind)]

NextReader == WriterStep \/ ReaderStep

SpecReader == InitReader /\ [][NextReader]_vars

(* several appenders, with or without the external mutex *)
InitAppenders ==
    /\ InitShared
    /\ \E use_mutex \in BOOLEAN :
          procs = [use_mutex |-> use_mutex, holder |-> "none", torn |-> {},
                   w |-> [w \in Writers |-> IdleWriter]]

NextAppenders == WriterStep

SpecAppenders == InitAppenders /\ [][NextAppenders]_vars

(* C26: a reader that runs concurrently with a single appender, at any     *)
(* interleaving of the appender's steps, processes only entries below the  *)
(* next_index it observed, and each of them had been completely written    *)
(* when that next_index became visible: what the reader took is the whole  *)
(* entry that the appender passed.                                         *)
C26_ReaderSeesWholeEntries ==
    \A k \in 1..Len(procs.r.seen) :
        /\ procs.r.seen[k].i < procs.r.seen[k].obs
        /\ procs.r.seen[k].whole
        /\ procs.r.seen[k].i = k - 1
        /\ procs.r.seen[k].le
              = [EntryFrom("w1", k) EXCEPT !.seqnum = k - 1]

(* the reader has taken an entry while the appender was in the middle of   *)
(* copying the next one                                                    *)
C26_Witness ==
    /\ Len(procs.r.seen) = 1
    /\ procs.w["w1"].pc = "copy2"
    /\ procs.w["w1"].idx = 1

(* the entries that the appenders were told are in the log *)
Acked == UNION {{procs.w[w].acked[k] : k \in 1..Len(procs.w[w].acked)} :
                   w \in DOMAIN procs.w}

InLog(e) == \E i \in 0..(log.next_index - 1) : log.entries[i] = e

(* C27: when the appenders hold an external mutex over the whole append    *)
(* sequence, no appended entry is overwritten and every entry's seqnum     *)
(* equals its index, at every interleaving.                                *)
C27_MutexKeepsLogWhole ==
    procs.use_mutex
        => /\ \A e \in Acked : InLog(e)
           /\ \A i \in 0..(log.next_index - 1) :
                 i \notin procs.torn => log.entries[i].seqnum = i
           /\ log.next_index = Cardinality(Acked)
                 \/ \E w \in DOMAIN procs.w : procs.w[w].pc = "ret"

(* without the mutex: both appenders were told of success, and one entry   *)
(* is gone from the log or two entries carry the same seqnum               *)
C27_Witness ==
    /\ ~procs.use_mutex
    /\ \A w \in DOMAIN procs.w : procs.w[w].pc = "idle"
    /\ \/ \E e \in Acked : ~InLog(e)
       \/ \E i, j \in 0..(log.next_index - 1) :
             i # j /\ log.entries[i].seqnum = log.entries[j].seqnum

(* C28: every successful allocate_file with size s > 0 appends a FILE      *)
(* entry with exactly one extent, tagged SIMPLE, whose length is s rounded *)
(* up to the allocation unit and whose logical size is s, and issues       *)
(* MAP_CREATE with file size s; 3 MiB on an empty filesystem gives the     *)
(* extent at log_offset + log_len, length 4 MiB, size 3 MiB.               *)
C28_AllocLogsOneSimpleExtent ==
    (last.op = "mkfile" /\ last.rc >= 0 /\ last.farc = 0 /\ last.size > 0)
        => /\ log.next_index = last.prelog.next_index + 1
           /\ \A fc \in {log.entries[last.idx]} :
                 /\ fc.type = "FILE"
                 /\ fc.nextents = 1
                 /\ Len(fc.ext_list) = 1
                 /\ fc.ext_type = <<"SIMPLE">>
                 /\ fc.ext_list[1].len
                       = ((last.size + TAGFS_ALLOC_UNIT - 1)
                             \div TAGFS_ALLOC_UNIT) * TAGFS_ALLOC_UNIT
                 /\ fc.size = last.size
                 /\ Len(last.call) = 1
                 /\ last.call[1].file_size = last.size
                 /\ last.call[1].file_type = "REG"
                 /\ last.call[1].ext_list = fc.ext_list
                 /\ (/\ last.size = 3
                     /\ last.prelog.next_index = 0
                     /\ DevSize = 128)
                       => fc.ext_list
                             = <<[offset |-> sb.log_offset + sb.log_len,
                                  len |-> 4]>>

(* 3 MiB allocated on an empty filesystem *)
C28_Witness ==
    /\ last.op = "mkfile" /\ last.rc >= 0 /\ last.farc = 0
    /\ last.size = 3
    /\ last.prelog.next_index = 0
    /\ log.entries[0].ext_list = <<[offset |-> 10, len |-> 4]>>
    /\ log.entries[0].size = 3

(* C29: with dry-run set, replay creates and unlinks nothing and issues no *)
(* ioctl: the files after the pass are those before it, whatever the log   *)
(* holds.                                                                  *)
C29_DryRunChangesNothing ==
    (last.op = "logplay" /\ last.dry)
        => /\ fs = last.prefs
           /\ last.calls = <<>>
           /\ \A k \in TraceIdx :
                 last.trace[k].what \in {"skipped", "dry", "invalid"}

(* a dry run over a log with entries that a real pass would act on, on a   *)
(* mount where nothing has been created                                    *)
C29_Witness ==
    /\ last.op = "logplay" /\ last.dry /\ last.rc = 0
    /\ \A p \in DOMAIN fs : fs[p] = "none"
    /\ \E k \in TraceIdx :
          last.trace[k].what = "dry" /\ EntryOf(last.trace[k]).type = "FILE"
    /\ \E k \in TraceIdx :
          last.trace[k].what = "dry" /\ EntryOf(last.trace[k]).type = "MKDIR"

(***************************************************************************)
(* Replay of a log found on the device with any number of its slots in     *)
(* use: entries[0 .. last_index] are last_index + 1 slots, and a log with  *)
(* all of them used has next_index = last_index + 1.                       *)
(***************************************************************************)
SlotEntries ==
    {FileEntry(<<"c">>, 2, <<[offset |-> 10, len |-> 2]>>),
     FileEntry(<<"b">>, 4, <<[offset |-> 12, len |-> 2],
                            [offset |-> 14, len |-> 2]>>),
     DirEntry(<<"d">>, FileMode, 0, 0)}

(* the log that holds the entries es in its first slots *)
LogOf(es) ==
    [magic |-> TAGFS_LOG_MAGIC, next_seqnum |-> Len(es),
     next_index |-> Len(es), last_index |-> MaxLastIndex,
     entries |-> [i \in 0..MaxLastIndex |->
                     IF i < Len(es) THEN [es[i + 1] EXCEPT !.seqnum = i]
                     ELSE ZeroEntry]]

SlotLogs ==
    {LogOf(es) :
        es \in UNION {[1..n -> SlotEntries] : n \in 0..(MaxLastIndex + 1)}}

InitSlots ==
    /\ meta = MetaInPlace
    /\ procs = NoProcs
    /\ sb = [magic |-> TAGFS_SUPER_MAGIC, devsize |-> 128,
             log_offset |-> TAGFS_LOG_OFFSET, log_len |-> TAGFS_LOG_LEN]
    /\ fs = [p \in {FullPath(r) : r \in PlayNames} |-> "none"]
    /\ ioctls = <<>>
    /\ log \in SlotLogs
    /\ bmp = NoBitmap
    /\ nappend = log.next_index
    /\ last = [op |-> "init", rc |-> 0, dry |-> FALSE, trace |-> <<>>,
               calls |-> <<>>, prefs |-> fs, after_pass |-> FALSE]

NextSlots == LogPlayAny

SpecSlots == InitSlots /\ [][NextSlots]_vars

AppendRefused(logp) ==
    logp.magic # TAGFS_LOG_MAGIC \/ AppendLogIsFull(logp) \/ tagfs_log_full(logp)

(* C31: whenever make_dir returns failure, at whatever step, the log is    *)
(* unchanged (no MKDIR entry, whole or partial, and next_index and         *)
(* next_seqnum as before); the only residue is the physical directory,     *)
(* and only when it was the log append that failed.                        *)
C31_FailedMkdirLeavesLog ==
    (last.op = "mkdir" /\ last.rc # 0)
        => /\ log = last.prelog
           /\ fs # last.prefs
                 => /\ fs = [last.prefs EXCEPT ![last.path] = "dir"]
                    /\ AppendRefused(last.prelog)

(* every FILE entry's size fits in the extents it names *)
SizesWithinExtents(logp) ==
    \A i \in FileIdx(logp) :
        logp.entries[i].size
            <= SumRoundedLens(logp.entries[i], 0)

(* C32 as stated: for every log, alloc_total <= size_total holds exactly   *)
(* when the bitmap builder reports no collisions.                          *)
C32_AllocLeSizeIffClean ==
    \A bb \in {tagfs_build_bitmap(log, DevSize)} :
        (bb.alloc_sum <= bb.size_sum) <=> (bb.errors = 0)

(* C32 amended: double-allocated units are not added to alloc_total, which *)
(* is the allocation unit times the number of unit references that hit a   *)
(* free unit; so on a log whose FILE entries fit in their extents          *)
(* alloc_total >= size_total whenever the builder reports no collisions.   *)
C32_AllocGeSizeWhenClean ==
    \A bb \in {tagfs_build_bitmap(log, DevSize)} :
    \A refs \in {UnitRefs(log)} :
        /\ bb.alloc_sum
              = TAGFS_ALLOC_UNIT
                   * Cardinality({r \in refs : ~HitsSetBit(refs, r)})
        /\ (bb.errors = 0 /\ SizesWithinExtents(log))
              => bb.alloc_sum >= bb.size_sum

(* a log without collisions whose files take more than their sizes *)
C32_Witness ==
    /\ log.next_index >= 2
    /\ SizesWithinExtents(log)
    /\ tagfs_build_bitmap(log, DevSize).errors = 0
    /\ tagfs_build_bitmap(log, DevSize).alloc_sum
          > tagfs_build_bitmap(log, DevSize).size_sum

(***************************************************************************)
(* tagfs_append_log called with any arguments: a log with a valid or an    *)
(* invalid magic, empty to full, or no log; an entry or no entry.          *)
(***************************************************************************)
AppendNull(null_log, null_e) ==
    /\ null_log \/ null_e
    /\ \E e \in CraftedEntries :
       \E r \in {tagfs_append_log(IF null_log THEN NULL ELSE log,
                                  IF null_e THEN NULL ELSE e)} :
          /\ log' = IF null_log THEN log ELSE r.log
          /\ nappend' = nappend + (IF r.rc = 0 THEN 1 ELSE 0)
          /\ last' = Last("append_null", r.rc, log.next_index, -1, 0, 0,
                          <<>>, log, {})
    /\ UNCHANGED <<sb, fs, ioctls, bmp, meta, procs>>

AppendNullAny ==
    \E null_log \in BOOLEAN, null_e \in BOOLEAN : AppendNull(null_log, null_e)

NextAppend == AppendLogAny \/ AppendNullAny

SpecAppend == InitLog /\ [][NextAppend]_vars

(* C33: a failed append leaves the log unchanged: when tagfs_append_log    *)
(* returns the invalid error (null log, null entry, wrong magic) or the    *)
(* log-full error, next_index, next_seqnum and every entry slot are as     *)
(* before the call; append returns no other error.                         *)
C33_FailedAppendLeavesLog ==
    last.op \in {"append", "append_null"}
        => /\ last.rc \in {0, -EINVAL, -E2BIG}
           /\ last.rc # 0
                 => /\ log.next_index = last.prelog.next_index
                    /\ log.next_seqnum = last.prelog.next_seqnum
                    /\ log.entries = last.prelog.entries
                    /\ log = last.prelog
           /\ (last.op = "append_null" \/ ~LogValid) <=> last.rc = -EINVAL
           /\ last.rc = -E2BIG => last.idx >= log.last_index

(* the log-full error on a log that holds entries *)
C33_Witness ==
    /\ last.op = "append" /\ last.rc = -E2BIG
    /\ log.next_index = log.last_index
    /\ log.entries[0].type = "FILE"

(***************************************************************************)
(* Two make_file operations at once, on the files a and b.  Each runs      *)
(* tagfs_file_create, then tagfs_file_alloc: the bitmap rebuild and the    *)
(* allocation (tagfs_alloc_bypath), the append of the FILE entry, and      *)
(* MAP_CREATE.  The callers' mutex is held over the append only.           *)
(***************************************************************************)
MakerFile(w) == IF w = "w1" THEN <<"a">> ELSE <<"b">>

IdleMaker == [pc |-> "idle", size |-> 0, offset |-> -1, rc |-> 0]

InitMakers ==
    /\ InitShared
    /\ procs = [use_mutex |-> TRUE, holder |-> "none",
                w |-> [w \in Writers |-> IdleMaker]]

(* tagfs_mkfile up to the allocation: the file is created *)
MakerCreate(w, size) ==
    /\ procs.w[w].pc = "idle"
    /\ \E cr \in {tagfs_file_create(fs, FullPath(MakerFile(w)), 0)} :
          /\ fs' = cr.fs
          /\ procs' = [procs EXCEPT
                         !.w[w].pc = IF cr.fd < 0 THEN "done" ELSE "created",
                         !.w[w].size = size,
                         !.w[w].rc = IF cr.fd < 0 THEN cr.fd ELSE 0]
    /\ UNCHANGED <<sb, log, ioctls, last, bmp, nappend, meta>>

(* tagfs_alloc_bypath: the bitmap is rebuilt from the log as it is now *)
MakerAlloc(w) ==
    /\ procs.w[w].pc = "created"
    /\ \E offset \in {tagfs_alloc_bypath(log, sb, procs.w[w].size)} :
          procs' = [procs EXCEPT
                      !.w[w].pc = IF AllocFailed(offset)
                                  THEN "failed" ELSE "allocated",
                      !.w[w].offset = offset,
                      !.w[w].rc = IF AllocFailed(offset) THEN -ENOMEM ELSE 0]
    /\ UNCHANGED <<sb, log, fs, ioctls, last, bmp, nappend, meta>>

(* the caller takes the mutex for the append sequence *)
MakerLock(w) ==
    /\ procs.w[w].pc = "allocated"
    /\ MutexFree(procs)
    /\ procs' = [procs EXCEPT !.holder = w, !.w[w].pc = "locked"]
    /\ UNCHANGED <<sb, log, fs, ioctls, last, bmp, nappend, meta>>

(* tagfs_log_file_creation under the mutex, which is then given back *)
MakerAppend(w) ==
    /\ procs.w[w].pc = "locked"
    /\ \E lr \in {tagfs_log_file_creation(log, 1,
                      <<[offset |-> procs.w[w].offset,
                         len |-> round_size_to_alloc_unit(procs.w[w].size)]>>,
                      MakerFile(w), FileMode, 0, 0, procs.w[w].size)} :
          /\ log' = lr.log
          /\ nappend' = nappend + (IF lr.rc = 0 THEN 1 ELSE 0)
          /\ procs' = [procs EXCEPT
                         !.holder = "none",
                         !.w[w].pc = IF lr.rc # 0 THEN "failed" ELSE "logged",
                         !.w[w].rc = lr.rc]
    /\ UNCHANGED <<sb, fs, ioctls, last, bmp, meta>>

(* tagfs_file_map_create, and the return of tagfs_mkfile *)
MakerMap(w, kernel_rc) ==
    /\ procs.w[w].pc = "logged"
    /\ ioctls' = Append(ioctls,
                     tagfs_file_map_create(FullPath(MakerFile(w)),
                         procs.w[w].size, 1,
                         <<[offset |-> procs.w[w].offset,
                            len |-> round_size_to_alloc_unit(procs.w[w].size)]>>,
                         "REG", kernel_rc))
    /\ procs' = [procs EXCEPT
                   !.w[w].pc = IF kernel_rc # 0 THEN "failed" ELSE "done",
                   !.w[w].rc = kernel_rc]
    /\ UNCHANGED <<sb, log, fs, last, bmp, nappend, meta>>

(* tagfs_mkfile unlinks the file when tagfs_file_alloc failed *)
MakerUnlink(w) ==
    /\ procs.w[w].pc = "failed"
    /\ fs' = unlink(fs, FullPath(MakerFile(w)))
    /\ procs' = [procs EXCEPT !.w[w].pc = "done"]
    /\ UNCHANGED <<sb, log, ioctls, last, bmp, nappend, meta>>

MakerStep ==
    \E w \in Writers :
        \/ \E size \in 1..MaxFileSize : MakerCreate(w, size)
        \/ MakerAlloc(w)
        \/ MakerLock(w)
        \/ MakerAppend(w)
        \/ \E kernel_rc \in {0, -1} : MakerMap(w, kernel_rc)
        \/ MakerUnlink(w)

NextMakers == MakerStep

SpecMakers == InitMakers /\ [][NextMakers]_vars

(* C34: when two make_file operations run concurrently and the external   *)
(* mutex covers the append sequence only, not the bitmap rebuild and the   *)
(* allocation before it, the two FILE entries they append never reference *)
(* overlapping extents.                                                    *)
C34_ConcurrentMkfilesDisjoint ==
    \A i \in FileIdx(log) : \A j \in FileIdx(log) :
        log.entries[i].relpath # log.entries[j].relpath
            => EntryUnits(log, i) \cap EntryUnits(log, j) = {}

=============================================================================
